---- MODULE Spec2Model ----
(***************************************************************************)
(* Model of the boutique POS backend: the CSV record store                 *)
(* (backend/app/database/csv_handler.py) and the product, customer and     *)
(* sale endpoints built on it (backend/app/api/*.py).                      *)
(*                                                                         *)
(* A table is the content of one CSV file: a sequence of rows, each row a  *)
(* record of cells.  Numeric cells and key cells are kept as the values    *)
(* the program wrote (to_csv / read_csv round-trip them exactly; key       *)
(* columns are read with dtype str).  Free-text cells (sku) are kept      *)
(* as text, and read_all applies pandas' per-column type inference to      *)
(* them.  Money is counted in half currency units, so 3 stands for 1.5.    *)
(***************************************************************************)
EXTENDS Integers, Sequences, FiniteSets, TLC

(* ------------------------------ bounds -------------------------------- *)

\* keys uuid4 hands out during a run, so also the rows all tables hold together
MaxUuid == 3
\* largest stock a request may set and largest quantity of a line item
MaxStock == 2
\* most line items of one sale request
MaxItems == 2
\* largest sale total a request may carry, in half currency units
MaxTotal == 3
\* clock readings datetime.utcnow() may return
MaxTime == 2

\* calendar days and hours of the day that timestamps can name
MaxDay == 2

MaxHour == 1

\* rows of a table file the store is started on
MaxRows == 2

(* --------------------------- value domains ---------------------------- *)

\* Optional[T]: None is the empty tuple, a present value v is <<v>>
None == <<>>

Some(v) == <<v>>

Opt(S) == {None} \cup {Some(v) : v \in S}

\* keys: uuid4 values in the order they are drawn, as opaque tokens
Keys == 1..MaxUuid

Skus == {"A1", "100", "007"}

\* texts that pandas' read_csv parses as an integer
IntTexts == {"100", "007", "7"}

\* the text to_csv writes for the integer a numeric-looking text parses to
CanonInt(t) == IF t = "007" THEN "7" ELSE t

\* columns of the model that hold free text (not listed in read_all's dtype dict)
TextColumns == {"sku"}

SaleStatuses == {"completed", "partial_payment", "refunded", "partial_refund", "cancelled"}

Times == 1..MaxTime

\* the tables of the data directory, one CSV file each
Files == {"products", "customers", "sales", "users"}

(* ------------------------------ state --------------------------------- *)

VARIABLES
    products,   \* products.csv: rows [id, sku, stock]
    customers,  \* customers.csv: rows [id, total_spent, visits, loyalty_points, last_visit]
    sales,      \* sales.csv: rows [id, customer_id, items, total, status, paid_amount, remaining_amount, timestamp]
    uuids,      \* number of keys uuid4 has handed out
    pending,    \* the request the server has received and not yet served, or None
    last,       \* the response to the request served last; cleared when a request arrives
    workers,    \* per server process: the request it is serving and its local variables
    users,      \* users.csv: rows [id, email, role]
    present     \* the tables whose backing file is in the data directory

vars == <<products, customers, sales, uuids, pending, last, workers, users, present>>

tables == <<products, customers, sales, uuids>>

(* --------------------------- CSVHandler -------------------------------- *)

\* a str value as a DataFrame cell
StrCell(t) == [kind |-> "str", text |-> t]

\* read_csv on one free-text column: int64 when every cell parses as an
\* integer, object (the texts as they are) otherwise
InferCell(file, col, i) ==
    IF \A j \in 1..Len(file) : file[j][col] \in IntTexts
    THEN [kind |-> "int", text |-> CanonInt(file[i][col])]
    ELSE StrCell(file[i][col])

\* CSVHandler.read_all: the file as a DataFrame
ReadAll(file) ==
    [i \in 1..Len(file) |->
        [c \in DOMAIN file[i] |->
            IF c \in TextColumns THEN InferCell(file, c, i) ELSE file[i][c]]]

\* CSVHandler.save_dataframe: to_csv writes each cell's text
SaveDataframe(df) ==
    [i \in 1..Len(df) |->
        [c \in DOMAIN df[i] |->
            IF c \in TextColumns THEN df[i][c].text ELSE df[i][c]]]

\* a dict of the program as a DataFrame row: its str values are str cells
AsRow(data) ==
    [c \in DOMAIN data |-> IF c \in TextColumns THEN StrCell(data[c]) ELSE data[c]]

\* the mask df['id'] == record_id: positions of the rows with that key
Matching(df, record_id) == {i \in 1..Len(df) : df[i].id = record_id}

\* iloc[0] of a selection
First(S) == CHOOSE i \in S : \A j \in S : i <= j

\* CSVHandler.find_by_id on a loaded DataFrame: the first row with that key, or None
FindInDf(df, record_id) ==
    IF df = <<>> \/ Matching(df, record_id) = {}
    THEN None
    ELSE Some(df[First(Matching(df, record_id))])

\* CSVHandler.find_by_id
FindById(file, record_id) == FindInDf(ReadAll(file), record_id)

\* pd.concat([df, new_record]) in CSVHandler.create
Concat(df, data) == Append(df, AsRow(data))

\* CSVHandler.create: append the row (its key already assigned) and save
Create(file, data) == SaveDataframe(Concat(ReadAll(file), data))

\* df.loc[mask, key] = value on an int64 column with a str value: pandas
\* either upcasts the column to object or (newer releases) raises TypeError
Incompatible(df, data) ==
    \E c \in (DOMAIN data \cap TextColumns) \ {"id"} :
        df # <<>> /\ df[1][c].kind = "int"

\* one row after the loop "for key, value in data.items(): if key != 'id'"
Assign(row, data) ==
    [c \in DOMAIN row |->
        IF c \in DOMAIN data /\ c # "id"
        THEN (IF c \in TextColumns THEN StrCell(data[c]) ELSE data[c])
        ELSE row[c]]

\* the DataFrame after CSVHandler.update's loop: every row under the mask is assigned
AssignMasked(df, record_id, data) ==
    [i \in 1..Len(df) |->
        IF i \in Matching(df, record_id) THEN Assign(df[i], data) ELSE df[i]]

\* CSVHandler.update: [found, file]; nothing is saved when no row matches
Update(file, record_id, data) ==
    LET df == ReadAll(file)
    IN  IF df = <<>> \/ Matching(df, record_id) = {}
        THEN [found |-> FALSE, file |-> file]
        ELSE [found |-> TRUE, file |-> SaveDataframe(AssignMasked(df, record_id, data))]

\* df[df['id'] != record_id]
Unmatched(df, record_id) == SelectSeq(df, LAMBDA r : r.id # record_id)

\* a variant of Delete: only the first row is compared with the key
DeleteFirst(file, record_id) ==
    LET df == ReadAll(file)
    IN  IF df = <<>> \/ df[1].id # record_id
        THEN [found |-> FALSE, file |-> file]
        ELSE [found |-> TRUE, file |-> SaveDataframe(Tail(df))]

\* CSVHandler.delete: [found, file]; saves only when a row was removed
Delete(file, record_id) ==
    LET df == ReadAll(file)
    IN  IF df = <<>> \/ Len(Unmatched(df, record_id)) = Len(df)
        THEN [found |-> FALSE, file |-> file]
        ELSE [found |-> TRUE, file |-> SaveDataframe(Unmatched(df, record_id))]

\* ProductCSVHandler.find_by_sku: df[df['sku'] == sku] with sku a str
FindBySku(file, sku) ==
    LET df == ReadAll(file)
        m == {i \in 1..Len(df) : df[i].sku = StrCell(sku)}
    IN  IF df = <<>> \/ m = {} THEN None ELSE Some(df[First(m)])

\* a variant of Uuid4: the key handed out last is handed out again
Uuid4Repeating == IF uuids = 0 THEN 1 ELSE uuids

\* str(uuid4()): a key never handed out before
Uuid4 == uuids + 1

\* the fields of record r listed in S
Restrict(r, S) == [c \in S |-> r[c]]

(* ------------------- the record store called directly ------------------ *)

\* the request being served
req == pending[1]

Serving(op) == pending # None /\ req.op = op

\* the request has been served
Served == pending' = None /\ UNCHANGED <<workers, users, present>>

\* products_db.create(data) with data = [sku, stock], no key
StoreCreate ==
    /\ Serving("store_create")
    /\ Served
    /\ products' = Create(products, [id |-> Uuid4] @@ req.body)
    /\ uuids' = Uuid4
    /\ last' = [op |-> "store_create", id |-> Uuid4]
    /\ UNCHANGED <<customers, sales>>

\* products_db.update(record_id, data)
StoreUpdate ==
    /\ Serving("store_update")
    /\ Served
    /\ \/ /\ products' = Update(products, req.id, req.body).file
          /\ last' = [op |-> "store_update", raised |-> FALSE,
                      found |-> Update(products, req.id, req.body).found]
       \/ /\ Update(products, req.id, req.body).found
          /\ Incompatible(ReadAll(products), req.body)
          /\ last' = [op |-> "store_update", raised |-> TRUE, found |-> TRUE]
          /\ UNCHANGED products
    /\ UNCHANGED <<customers, sales, uuids>>

\* products_db.delete(record_id)
StoreDelete ==
    /\ Serving("store_delete")
    /\ Served
    /\ products' = Delete(products, req.id).file
    /\ last' = [op |-> "store_delete", id |-> req.id,
                found |-> Delete(products, req.id).found]
    /\ UNCHANGED <<customers, sales, uuids>>

(* -------------------------- product endpoints -------------------------- *)

\* a record read from products.csv passes the response model Product: sku is
\* declared str, and an integer is not accepted for it
ValidProduct(row) == row.sku.kind = "str"

\* POST /api/products/ with body [sku, stock]
CreateProduct ==
    /\ Serving("create_product")
    /\ Served
    /\ IF FindBySku(products, req.body.sku) # None
       THEN /\ last' = [op |-> "create_product", result |-> "conflict"]
            /\ UNCHANGED tables
       ELSE /\ products' = Create(products, [id |-> Uuid4, sku |-> req.body.sku,
                                             stock |-> req.body.stock])
            /\ uuids' = Uuid4
            /\ last' = [op |-> "create_product", result |-> "ok", id |-> Uuid4]
            /\ UNCHANGED <<customers, sales>>

\* a variant of UpdateProduct: the sku conflict is looked for after the update
\* was written
UpdateProductEager ==
    /\ Serving("update_product")
    /\ Served
    /\ IF FindById(products, req.id) = None
       THEN /\ last' = [op |-> "update_product", result |-> "not_found"]
            /\ UNCHANGED products
       ELSE /\ products' = Update(products, req.id, req.body).file
            /\ last' = [op |-> "update_product",
                        result |-> IF /\ "sku" \in DOMAIN req.body
                                      /\ FindBySku(products, req.body.sku) # None
                                      /\ FindBySku(products, req.body.sku)[1].id # req.id
                                   THEN "conflict" ELSE "ok"]
    /\ UNCHANGED <<customers, sales, uuids>>

\* PUT /api/products/{product_id} with the body's non-None fields
UpdateProduct ==
    /\ Serving("update_product")
    /\ Served
    /\ IF FindById(products, req.id) = None
       THEN /\ last' = [op |-> "update_product", result |-> "not_found"]
            /\ UNCHANGED products
       ELSE IF /\ "sku" \in DOMAIN req.body
               /\ FindBySku(products, req.body.sku) # None
               /\ FindBySku(products, req.body.sku)[1].id # req.id
       THEN /\ last' = [op |-> "update_product", result |-> "conflict"]
            /\ UNCHANGED products
       ELSE \/ /\ products' = Update(products, req.id, req.body).file
               /\ last' = [op |-> "update_product",
                           result |-> IF ValidProduct(FindInDf(
                                             AssignMasked(ReadAll(products), req.id, req.body),
                                             req.id)[1])
                                      THEN "ok" ELSE "error"]
            \/ /\ Incompatible(ReadAll(products), req.body)
               /\ last' = [op |-> "update_product", result |-> "error"]
               /\ UNCHANGED products
    /\ UNCHANGED <<customers, sales, uuids>>

\* a variant of DeleteProduct: a product that a sale refers to is kept
DeleteProductRestricted ==
    /\ Serving("delete_product")
    /\ Served
    /\ IF FindById(products, req.id) = None
       THEN /\ last' = [op |-> "delete_product", result |-> "not_found"]
            /\ UNCHANGED products
       ELSE IF \E i \in 1..Len(sales) : \E k \in 1..Len(sales[i].items.json) :
                   sales[i].items.json[k].product_id = req.id
       THEN /\ last' = [op |-> "delete_product", result |-> "conflict"]
            /\ UNCHANGED products
       ELSE /\ products' = Delete(products, req.id).file
            /\ last' = [op |-> "delete_product",
                        result |-> IF Delete(products, req.id).found THEN "ok" ELSE "error"]
    /\ UNCHANGED <<customers, sales, uuids>>

\* DELETE /api/products/{product_id}
DeleteProduct ==
    /\ Serving("delete_product")
    /\ Served
    /\ IF FindById(products, req.id) = None
       THEN /\ last' = [op |-> "delete_product", result |-> "not_found"]
            /\ UNCHANGED products
       ELSE /\ products' = Delete(products, req.id).file
            /\ last' = [op |-> "delete_product",
                        result |-> IF Delete(products, req.id).found THEN "ok" ELSE "error"]
    /\ UNCHANGED <<customers, sales, uuids>>

\* GET /api/products/{product_id}
GetProduct ==
    /\ Serving("get_product")
    /\ Served
    /\ last' = [op |-> "get_product",
                result |-> IF FindById(products, req.id) = None THEN "not_found"
                           ELSE IF ValidProduct(FindById(products, req.id)[1]) THEN "ok"
                           ELSE "error"]
    /\ UNCHANGED tables

\* str.lower() of a text, as its characters
Lower(t) ==
    CASE t = "A1"  -> <<"a", "1">>
      [] t = "100" -> <<"1", "0", "0">>
      [] t = "007" -> <<"0", "0", "7">>
      [] t = "7"   -> <<"7">>
      [] t = "a"   -> <<"a">>
      [] t = "0"   -> <<"0">>
      [] t = ""    -> <<>>
      [] t = "Ann" -> <<"a", "n", "n">>
      [] t = "Bob" -> <<"b", "o", "b">>
      [] t = "an"  -> <<"a", "n">>
      [] t = "1"   -> <<"1">>
      [] t = "+1"  -> <<"+", "1">>
      [] t = "ann@x.com" -> <<"a", "n", "n", "@", "x", ".", "c", "o", "m">>

\* "x in y" for two str values given as characters
Contains(x, y) ==
    \E k \in 0..(Len(y) - Len(x)) : SubSeq(y, k + 1, k + Len(x)) = x

\* whether the search filter of get_products keeps a record; .lower() of an
\* int raises AttributeError (the name and description do not contain the text)
SearchRaises(df, search) == search # None /\ df # <<>> /\ df[1].sku.kind = "int"

SearchKeeps(row, search) ==
    search = None \/ Contains(Lower(search[1]), Lower(row.sku.text))

\* all_products[skip:skip + limit]
Slice(rows, skip, limit) ==
    SubSeq(rows, skip + 1, IF skip + limit < Len(rows) THEN skip + limit ELSE Len(rows))

\* GET /api/products/?skip=&limit=&search=
GetProducts ==
    /\ Serving("get_products")
    /\ Served
    /\ LET df == ReadAll(products)
           all_products == SelectSeq(df, LAMBDA r : SearchKeeps(r, req.search))
           page == Slice(all_products, req.skip, req.limit)
       IN  last' = IF \/ SearchRaises(df, req.search)
                      \/ \E i \in 1..Len(page) : ~ValidProduct(page[i])
                   THEN [op |-> "get_products", result |-> "error"]
                   ELSE [op |-> "get_products", result |-> "ok",
                         data |-> page, total |-> Len(all_products)]
    /\ UNCHANGED tables

(* -------------------------- customer endpoints ------------------------- *)

\* POST /api/customers/: customers_db.create(customer.dict())
CreateCustomer ==
    /\ Serving("create_customer")
    /\ Served
    /\ customers' = Create(customers, [id |-> Uuid4] @@ req.body)
    /\ uuids' = Uuid4
    /\ last' = [op |-> "create_customer", result |-> "ok", id |-> Uuid4]
    /\ UNCHANGED <<products, sales>>

\* GET /api/customers/{customer_id}
GetCustomer ==
    /\ Serving("get_customer")
    /\ Served
    /\ last' = [op |-> "get_customer",
                result |-> IF FindById(customers, req.id) = None
                           THEN "not_found" ELSE "ok"]
    /\ UNCHANGED tables

\* PUT /api/customers/{customer_id} with the body's non-None fields
UpdateCustomer ==
    /\ Serving("update_customer")
    /\ Served
    /\ IF FindById(customers, req.id) = None
       THEN /\ last' = [op |-> "update_customer", result |-> "not_found"]
            /\ UNCHANGED customers
       ELSE /\ customers' = Update(customers, req.id, req.body).file
            /\ last' = [op |-> "update_customer", result |-> "ok"]
    /\ UNCHANGED <<products, sales, uuids>>

\* DELETE /api/customers/{customer_id}
DeleteCustomer ==
    /\ Serving("delete_customer")
    /\ Served
    /\ IF FindById(customers, req.id) = None
       THEN /\ last' = [op |-> "delete_customer", result |-> "not_found"]
            /\ UNCHANGED customers
       ELSE /\ customers' = Delete(customers, req.id).file
            /\ last' = [op |-> "delete_customer",
                        result |-> IF Delete(customers, req.id).found THEN "ok" ELSE "error"]
    /\ UNCHANGED <<products, sales, uuids>>

\* read_all of customers.csv: email and phone are inferred like any free text
ReadCustomers(file) ==
    [i \in 1..Len(file) |->
        [file[i] EXCEPT !.email = InferCell(file, "email", i),
                        !.phone = InferCell(file, "phone", i)]]

\* _process_customer_record on a contact cell: an empty text becomes None
ContactValue(cell) == IF cell = StrCell("") THEN None ELSE Some(cell)

\* "search_lower in c.get(key, '').lower()" raises AttributeError when the
\* value is None or a number
LowerRaises(value) == value = None \/ value[1].kind # "str"

\* the search filter of get_customers on one record: the record has no 'name'
\* key, so the first test is on the empty text; `or` stops at the first match
CustomerFilter(row, search) ==
    LET email == ContactValue(row.email)
        phone == ContactValue(row.phone)
    IN  IF Contains(Lower(search), Lower("")) THEN "keep"
        ELSE IF LowerRaises(email) THEN "raise"
        ELSE IF Contains(Lower(search), Lower(email[1].text)) THEN "keep"
        ELSE IF LowerRaises(phone) THEN "raise"
        ELSE IF Contains(Lower(search), Lower(phone[1].text)) THEN "keep"
        ELSE "drop"

\* GET /api/customers/?skip=&limit=&search=
GetCustomers ==
    /\ Serving("get_customers")
    /\ Served
    /\ LET df == ReadCustomers(customers)
           all_customers ==
               IF req.search = None THEN df
               ELSE SelectSeq(df, LAMBDA r : CustomerFilter(r, req.search[1]) = "keep")
           page == Slice(all_customers, req.skip, req.limit)
       IN  last' = IF /\ req.search # None
                      /\ \E i \in 1..Len(df) : CustomerFilter(df[i], req.search[1]) = "raise"
                   THEN [op |-> "get_customers", result |-> "error"]
                   ELSE [op |-> "get_customers", result |-> "ok",
                         ids |-> [i \in 1..Len(page) |-> page[i].id],
                         total |-> Len(all_customers)]
    /\ UNCHANGED tables

(* ---------------------------- sale endpoints --------------------------- *)

\* int(x) of an amount counted in half currency units, as whole units
IntTrunc(a) == a \div 2

\* json.dumps of a list: the cell holds the serialized list
JsonDumps(v) == [json |-> v]

\* a variant of SellItems: the stock check refuses a quantity equal to the stock
RECURSIVE SellItemsStrict(_, _, _)
SellItemsStrict(file, items, k) ==
    IF k > Len(items)
    THEN [file |-> file, result |-> "ok", at |-> k]
    ELSE LET product == FindById(file, items[k].product_id)
         IN  IF product = None
             THEN [file |-> file, result |-> "not_found", at |-> k]
             ELSE IF product[1].stock <= items[k].quantity
             THEN [file |-> file, result |-> "insufficient_stock", at |-> k]
             ELSE SellItemsStrict(
                      Update(file, items[k].product_id,
                             [stock |-> product[1].stock - items[k].quantity]).file,
                      items, k + 1)

\* a variant of SellItems: every line item is checked against the stock the
\* products file held when the request arrived
RECURSIVE SellItemsFrom(_, _, _, _)
SellItemsFrom(original, file, items, k) ==
    IF k > Len(items)
    THEN [file |-> file, result |-> "ok", at |-> k]
    ELSE LET product == FindById(file, items[k].product_id)
         IN  IF product = None
             THEN [file |-> file, result |-> "not_found", at |-> k]
             ELSE IF FindById(original, items[k].product_id)[1].stock < items[k].quantity
             THEN [file |-> file, result |-> "insufficient_stock", at |-> k]
             ELSE SellItemsFrom(
                      original,
                      Update(file, items[k].product_id,
                             [stock |-> product[1].stock - items[k].quantity]).file,
                      items, k + 1)

SellItemsStale(file, items, k) == SellItemsFrom(file, file, items, k)

\* the loop over sale.items of create_sale, from item k on, on the products
\* file: [file, result, at] with at the item it stopped at
RECURSIVE SellItems(_, _, _)
SellItems(file, items, k) ==
    IF k > Len(items)
    THEN [file |-> file, result |-> "ok", at |-> k]
    ELSE LET product == FindById(file, items[k].product_id)
         IN  IF product = None
             THEN [file |-> file, result |-> "not_found", at |-> k]
             ELSE IF product[1].stock < items[k].quantity
             THEN [file |-> file, result |-> "insufficient_stock", at |-> k]
             ELSE SellItems(
                      Update(file, items[k].product_id,
                             [stock |-> product[1].stock - items[k].quantity]).file,
                      items, k + 1)

\* a variant of CreditCustomer: the loyalty points are rounded, not truncated
CreditCustomerRounded(file, customer_id, total, now) ==
    IF customer_id = None \/ FindById(file, customer_id[1]) = None
    THEN file
    ELSE LET customer == FindById(file, customer_id[1])[1]
         IN  Update(file, customer_id[1],
                    [total_spent |-> customer.total_spent + total,
                     visits |-> customer.visits + 1,
                     loyalty_points |-> customer.loyalty_points + ((total + 1) \div 2),
                     last_visit |-> Some(now)]).file

\* "Update customer data if provided" of create_sale, on the customers file
CreditCustomer(file, customer_id, total, now) ==
    IF customer_id = None \/ FindById(file, customer_id[1]) = None
    THEN file
    ELSE LET customer == FindById(file, customer_id[1])[1]
         IN  Update(file, customer_id[1],
                    [total_spent |-> customer.total_spent + total,
                     visits |-> customer.visits + 1,
                     loyalty_points |-> customer.loyalty_points + IntTrunc(total),
                     last_visit |-> Some(now)]).file

\* a variant of SaleData: an overpayment is stored as paid, not clamped
SaleDataUnclamped(data, now) ==
    LET d1 == [data EXCEPT !.items = JsonDumps(data.items)]
    IN  IF d1.paid_amount = None
        THEN [raised |-> TRUE, data |-> d1]
        ELSE IF d1.paid_amount[1] >= d1.total
        THEN [raised |-> FALSE,
              data |-> [d1 EXCEPT !.status = "completed",
                                  !.remaining_amount = Some(0)]]
        ELSE [raised |-> FALSE,
              data |-> [d1 EXCEPT !.status = "partial_payment",
                                  !.remaining_amount =
                                      Some(d1.total - d1.paid_amount[1])]]

\* a variant of SaleData: the payment logic leaves the status of the request
SaleDataKeeping(data, now) ==
    LET d1 == IF "items" \in DOMAIN data
              THEN [data EXCEPT !.items = JsonDumps(data.items)] ELSE data
        d2 == IF "timestamp" \notin DOMAIN d1
              THEN d1 @@ [timestamp |-> Some(now)] ELSE d1
    IN  IF "paid_amount" \in DOMAIN d2 /\ "total" \in DOMAIN d2
        THEN IF d2.paid_amount = None
             THEN [raised |-> TRUE, data |-> d2]
             ELSE IF d2.paid_amount[1] >= d2.total
             THEN [raised |-> FALSE,
                   data |-> [d2 EXCEPT !.remaining_amount = Some(0),
                                       !.paid_amount = Some(d2.total)]]
             ELSE [raised |-> FALSE,
                   data |-> [d2 EXCEPT !.remaining_amount =
                                           Some(d2.total - d2.paid_amount[1])]]
        ELSE [raised |-> FALSE, data |-> d2]

\* SalesCSVHandler.create up to "Create the record": the dict to store, or
\* raised when float() is applied to None
SaleData(data, now) ==
    LET d1 == IF "items" \in DOMAIN data
              THEN [data EXCEPT !.items = JsonDumps(data.items)] ELSE data
        d2 == IF "timestamp" \notin DOMAIN d1
              THEN d1 @@ [timestamp |-> Some(now)] ELSE d1
    IN  IF "paid_amount" \in DOMAIN d2 /\ "total" \in DOMAIN d2
        THEN IF d2.paid_amount = None
             THEN [raised |-> TRUE, data |-> d2]
             ELSE IF d2.paid_amount[1] >= d2.total
             THEN [raised |-> FALSE,
                   data |-> [d2 EXCEPT !.status = "completed",
                                       !.remaining_amount = Some(0),
                                       !.paid_amount = Some(d2.total)]]
             ELSE [raised |-> FALSE,
                   data |-> [d2 EXCEPT !.status = "partial_payment",
                                       !.remaining_amount =
                                           Some(d2.total - d2.paid_amount[1])]]
        ELSE [raised |-> FALSE, data |-> d2]

\* a variant of CreateSale: a failing line item restores the products file
CreateSaleAtomic ==
    /\ Serving("create_sale")
    /\ Served
    /\ \E now \in Times :
       LET sold == SellItems(products, req.body.items, 1)
           data == SaleData(req.body, now)
       IN  IF sold.result # "ok"
           THEN /\ last' = [op |-> "create_sale", result |-> sold.result, at |-> sold.at]
                /\ UNCHANGED tables
           ELSE /\ products' = sold.file
                /\ customers' = CreditCustomer(customers, req.body.customer_id,
                                               req.body.total, now)
                /\ IF data.raised
                   THEN /\ last' = [op |-> "create_sale", result |-> "error",
                                    at |-> sold.at, now |-> now]
                        /\ UNCHANGED <<sales, uuids>>
                   ELSE /\ sales' = Create(sales, [id |-> Uuid4] @@ data.data)
                        /\ uuids' = Uuid4
                        /\ last' = [op |-> "create_sale", result |-> "ok",
                                    at |-> sold.at, now |-> now, id |-> Uuid4]

\* POST /api/sales/ with body sale (the dict sale.dict() holds every field)
CreateSale ==
    /\ Serving("create_sale")
    /\ Served
    /\ \E now \in Times :
       LET sold == SellItems(products, req.body.items, 1)
           data == SaleData(req.body, now)
       IN  /\ products' = sold.file
           /\ IF sold.result # "ok"
              THEN /\ last' = [op |-> "create_sale", result |-> sold.result, at |-> sold.at]
                   /\ UNCHANGED <<customers, sales, uuids>>
              ELSE /\ customers' = CreditCustomer(customers, req.body.customer_id,
                                                  req.body.total, now)
                   /\ IF data.raised
                      THEN /\ last' = [op |-> "create_sale", result |-> "error",
                                       at |-> sold.at, now |-> now]
                           /\ UNCHANGED <<sales, uuids>>
                      ELSE /\ sales' = Create(sales, [id |-> Uuid4] @@ data.data)
                           /\ uuids' = Uuid4
                           /\ last' = [op |-> "create_sale", result |-> "ok",
                                       at |-> sold.at, now |-> now, id |-> Uuid4]

\* GET /api/sales/{sale_id}
GetSale ==
    /\ Serving("get_sale")
    /\ Served
    /\ last' = [op |-> "get_sale",
                result |-> IF FindById(sales, req.id) = None THEN "not_found" ELSE "ok"]
    /\ UNCHANGED tables

\* GET /api/sales/ without filters, first page
GetSales ==
    /\ Serving("get_sales")
    /\ Served
    /\ last' = [op |-> "get_sales", result |-> "ok",
                ids |-> [i \in 1..Len(ReadAll(sales)) |-> ReadAll(sales)[i].id]]
    /\ UNCHANGED tables

\* a variant of UpdateSale: a completed sale keeps its status
UpdateSaleGuarded ==
    /\ Serving("update_sale")
    /\ Served
    /\ IF FindById(sales, req.id) = None
       THEN /\ last' = [op |-> "update_sale", result |-> "not_found"]
            /\ UNCHANGED sales
       ELSE IF FindById(sales, req.id)[1].status = "completed" /\ "status" \in DOMAIN req.body
       THEN /\ last' = [op |-> "update_sale", result |-> "conflict", id |-> req.id]
            /\ UNCHANGED sales
       ELSE /\ sales' = Update(sales, req.id, req.body).file
            /\ last' = [op |-> "update_sale", result |-> "ok", id |-> req.id]
    /\ UNCHANGED <<products, customers, uuids>>

\* SalesCSVHandler.update: an item list in the data is stored serialized
DumpItemsOf(data) ==
    IF "items" \in DOMAIN data THEN [data EXCEPT !.items = JsonDumps(data.items)] ELSE data

\* the product file with the quantity of a line item put back into stock
Restock(file, item) ==
    IF FindById(file, item.product_id) = None THEN file
    ELSE Update(file, item.product_id,
                [stock |-> FindById(file, item.product_id)[1].stock + item.quantity]).file

\* a variant of UpdateSale: a refund puts the first line item back into stock
UpdateSaleRestocking ==
    /\ Serving("update_sale")
    /\ Served
    /\ IF FindById(sales, req.id) = None
       THEN /\ last' = [op |-> "update_sale", result |-> "not_found"]
            /\ UNCHANGED <<sales, products>>
       ELSE /\ sales' = Update(sales, req.id, DumpItemsOf(req.body)).file
            /\ products' =
                   IF "status" \in DOMAIN req.body /\ req.body.status = "refunded"
                   THEN Restock(products, FindById(sales, req.id)[1].items.json[1])
                   ELSE products
            /\ last' = [op |-> "update_sale", result |-> "ok", id |-> req.id]
    /\ UNCHANGED <<customers, uuids>>

\* PUT /api/sales/{sale_id} with the body's non-None fields; SalesCSVHandler.update
\* stores them as they are (no payment logic on update)
UpdateSale ==
    /\ Serving("update_sale")
    /\ Served
    /\ IF FindById(sales, req.id) = None
       THEN /\ last' = [op |-> "update_sale", result |-> "not_found"]
            /\ UNCHANGED sales
       ELSE /\ sales' = Update(sales, req.id, DumpItemsOf(req.body)).file
            /\ last' = [op |-> "update_sale", result |-> "ok", id |-> req.id]
    /\ UNCHANGED <<products, customers, uuids>>

(* ----------------------------- analytics ------------------------------- *)

\* timestamp texts "YYYY-MM-DD<sep>HH...": the date, the character between
\* date and time, the time of day
Timestamps == [date : 0..MaxDay, sep : {"T", " "}, time : 0..MaxHour]

\* datetime.isoformat(): the separator is "T"
Isoformat(date, time) == [date |-> date, sep |-> "T", time |-> time]

\* the place of a separator character in the order of characters: " " < "T"
Ord(sep) == IF sep = " " THEN 0 ELSE 1

\* a >= b for str values, a a timestamp cell (None is the empty text) and b a
\* timestamp text: the comparison goes character by character
StrGe(a, b) ==
    /\ a # None
    /\ \/ a[1].date > b.date
       \/ /\ a[1].date = b.date
          /\ \/ Ord(a[1].sep) > Ord(b.sep)
             \/ Ord(a[1].sep) = Ord(b.sep) /\ a[1].time >= b.time

\* sum(s.get('total', 0) for s in rows)
RECURSIVE SumTotal(_)
SumTotal(rows) ==
    IF rows = <<>> THEN 0 ELSE rows[1].total + SumTotal(Tail(rows))

\* recent_sales of get_sales_analytics: the rows whose timestamp text is >=
\* the cutoff text
RecentSales(rows, cutoff) == SelectSeq(rows, LAMBDA r : StrGe(r.timestamp, cutoff))

\* daily_sales of get_sales_analytics: revenue per timestamp[:10]
DailySales(rows) ==
    [d \in {rows[i].timestamp[1].date : i \in 1..Len(rows)} |->
        SumTotal(SelectSeq(rows, LAMBDA r : r.timestamp[1].date = d))]

\* sorted(daily_sales.items()) as the list of its dates
RECURSIVE SortedDates(_)
SortedDates(D) ==
    IF D = {} THEN <<>>
    ELSE LET d == CHOOSE x \in D : \A y \in D : x <= y
         IN  <<d>> \o SortedDates(D \ {d})

\* entries of the top-products list; the source keeps 10, the model fewer so
\* that the products of the model can exceed it
TopN == 2

\* dict.get(key, default)
Get(d, key, default) == IF key \in DOMAIN d THEN d[key] ELSE default

\* total_sales / total_transactions if total_transactions > 0 else 0, as a fraction
Ratio(total, n) ==
    IF n > 0 THEN [num |-> total, den |-> n] ELSE [num |-> 0, den |-> 1]

\* the line items of the rows, in the order the loops of get_sales_analytics
\* visit them
RECURSIVE FlatItems(_)
FlatItems(rows) ==
    IF rows = <<>> THEN <<>> ELSE rows[1].items.json \o FlatItems(Tail(rows))

\* the keys of product_sales in the order they were inserted
RECURSIVE InsertionOrder(_, _)
InsertionOrder(items, seen) ==
    IF items = <<>> THEN <<>>
    ELSE IF items[1].product_id \in seen THEN InsertionOrder(Tail(items), seen)
    ELSE <<items[1].product_id>>
             \o InsertionOrder(Tail(items), seen \cup {items[1].product_id})

\* product_sales[pid]["quantity"] and ["revenue"] after the loops
RECURSIVE QuantityOf(_, _)
QuantityOf(items, pid) ==
    IF items = <<>> THEN 0
    ELSE (IF items[1].product_id = pid THEN Get(items[1], "quantity", 0) ELSE 0)
             + QuantityOf(Tail(items), pid)

RECURSIVE RevenueOf(_, _)
RevenueOf(items, pid) ==
    IF items = <<>> THEN 0
    ELSE (IF items[1].product_id = pid
          THEN Get(items[1], "price", 0) * Get(items[1], "quantity", 0) ELSE 0)
             + RevenueOf(Tail(items), pid)

\* sorted(entries, key=revenue, reverse=True): stable, so entries of equal
\* revenue keep their order
RECURSIVE SortedByRevenue(_)
SortedByRevenue(entries) ==
    IF entries = <<>> THEN <<>>
    ELSE LET k == CHOOSE i \in 1..Len(entries) :
                      /\ \A j \in 1..Len(entries) : entries[j].revenue <= entries[i].revenue
                      /\ \A j \in 1..(i - 1) : entries[j].revenue < entries[i].revenue
         IN  <<entries[k]>>
                 \o SortedByRevenue(SubSeq(entries, 1, k - 1)
                                        \o SubSeq(entries, k + 1, Len(entries)))

\* top_products of get_sales_analytics
TopProducts(rows) ==
    LET items == FlatItems(rows)
        pids == InsertionOrder(items, {})
        entries == [i \in 1..Len(pids) |->
                       [product_id |-> pids[i],
                        quantity_sold |-> QuantityOf(items, pids[i]),
                        revenue |-> RevenueOf(items, pids[i])]]
        sorted == SortedByRevenue(entries)
    IN  SubSeq(sorted, 1, IF Len(sorted) < TopN THEN Len(sorted) ELSE TopN)

\* Counter(s.get('payment_method', 'unknown') for s in rows)
PaymentMethods(rows) ==
    [m \in {Get(rows[i], "payment_method", "unknown") : i \in 1..Len(rows)} |->
        Cardinality({i \in 1..Len(rows) : Get(rows[i], "payment_method", "unknown") = m})]

\* GET /api/sales/analytics/dashboard?days=N, asked at hour `hour` of day `today`
GetSalesAnalytics ==
    /\ Serving("get_sales_analytics")
    /\ Served
    /\ \E today \in req.days..MaxDay, hour \in 0..MaxHour :
       LET cutoff_date == Isoformat(today - req.days, hour)
           recent_sales == RecentSales(sales, cutoff_date)
           daily_sales == DailySales(recent_sales)
       IN  last' = [op |-> "get_sales_analytics", result |-> "ok",
                    today |-> today, hour |-> hour, days |-> req.days,
                    total_sales |-> SumTotal(recent_sales),
                    total_transactions |-> Len(recent_sales),
                    average_order_value |->
                        Ratio(SumTotal(recent_sales), Len(recent_sales)),
                    top_products |-> TopProducts(recent_sales),
                    sales_by_payment_method |-> PaymentMethods(recent_sales),
                    sales_by_day |-> daily_sales,
                    revenue_trend |->
                        [i \in 1..Cardinality(DOMAIN daily_sales) |->
                            [date |-> SortedDates(DOMAIN daily_sales)[i],
                             revenue |-> daily_sales[SortedDates(DOMAIN daily_sales)[i]]]]]
    /\ UNCHANGED tables

(* ----------------------------- requests -------------------------------- *)

\* ProductCreate bodies that pass validation
ProductCreates == [sku : Skus, stock : 0..MaxStock]

\* ProductUpdate bodies after "if v is not None": any subset of the fields
ProductUpdates == {Restrict(r, S) : r \in ProductCreates, S \in SUBSET {"sku", "stock"}}

ProductRequests ==
    [op : {"create_product"}, body : ProductCreates]
    \cup [op : {"update_product"}, id : Keys, body : ProductUpdates]
    \cup [op : {"delete_product"}, id : Keys]

\* rows handed to the store's create: no key
StoreCreates == [sku : Skus, stock : {0, MaxStock}]

\* dicts handed to the store's update: any subset of the columns, the key included
StoreUpdates ==
    {Restrict(r, S) : r \in [id : {1}, sku : Skus, stock : {0, MaxStock}],
                      S \in SUBSET {"id", "sku", "stock"}}

StoreRequests ==
    [op : {"store_create"}, body : StoreCreates]
    \cup [op : {"store_update"}, id : Keys, body : StoreUpdates]
    \cup [op : {"store_delete"}, id : Keys]

\* CustomerCreate bodies: the statistics at their defaults
CustomerCreates ==
    {[total_spent |-> 0, visits |-> 0, loyalty_points |-> 0, last_visit |-> None]}

\* SaleItem values that pass validation (quantity > 0)
SaleItems == [product_id : Keys, quantity : 1..MaxStock]

\* non-empty item lists
ItemLists == UNION {[1..n -> SaleItems] : n \in 1..MaxItems}

Totals == (MaxTotal - 1)..MaxTotal

\* SaleCreate bodies varying the line items and the customer, paid in full
StockSales ==
    [customer_id : Opt(Keys), items : ItemLists, total : {MaxTotal},
     paid_amount : {Some(MaxTotal)}, remaining_amount : {None},
     status : {"completed"}, timestamp : {None}]

\* one-item lists of quantity 1
SingleItems == {<<i>> : i \in {j \in SaleItems : j.quantity = 1}}

\* SaleCreate bodies varying the customer, the total and whether a payment is given
CustomerSales ==
    [customer_id : Opt(Keys), items : SingleItems, total : Totals,
     paid_amount : {None, Some(MaxTotal)}, remaining_amount : {None},
     status : {"completed"}, timestamp : {None}]

\* SaleCreate bodies varying the payment, the status and the timestamp
PaymentSales ==
    [customer_id : {None}, items : SingleItems, total : Totals,
     paid_amount : Opt(0..(MaxTotal + 1)), remaining_amount : {None},
     status : SaleStatuses, timestamp : {None, Some(1)}]

SaleCreates == StockSales \cup CustomerSales \cup PaymentSales

\* product bodies used around the sale endpoint: two skus are enough there
SaleProductCreates == [sku : {"A1", "100"}, stock : 0..MaxStock]

SaleRequests ==
    [op : {"create_product"}, body : SaleProductCreates]
    \cup [op : {"create_customer"}, body : CustomerCreates]
    \cup [op : {"create_sale"}, body : SaleCreates]

\* CustomerUpdate bodies after "if v is not None": the visit counter
CustomerUpdates == {[visits |-> MaxStock]}

\* SaleUpdate bodies after "if v is not None": a status, a payment, or both
SaleUpdates ==
    {Restrict(r, S) : r \in [status : SaleStatuses, paid_amount : {Some(0)}],
                      S \in SUBSET {"status", "paid_amount"}}

\* SaleCreate bodies of one line item of quantity 1, paid in full or in part
PaidSales ==
    [customer_id : {None}, items : SingleItems, total : {MaxTotal},
     paid_amount : {Some(MaxTotal - 1), Some(MaxTotal)}, remaining_amount : {None},
     status : {"completed"}, timestamp : {None}]

\* product bodies of the whole API: stock does not matter there
CrudProductCreates == {c \in SaleProductCreates : c.stock = 1}

CrudProductUpdates == {[sku |-> k] : k \in {"A1", "100"}} \cup {[stock |-> 0]}

CrudRequests ==
    [op : {"create_product"}, body : CrudProductCreates]
    \cup [op : {"update_product"}, id : Keys, body : CrudProductUpdates]
    \cup [op : {"delete_product", "get_product"}, id : Keys]
    \cup [op : {"create_customer"}, body : CustomerCreates]
    \cup [op : {"update_customer"}, id : Keys, body : CustomerUpdates]
    \cup [op : {"delete_customer", "get_customer"}, id : Keys]
    \cup [op : {"create_sale"}, body : PaidSales]
    \cup [op : {"update_sale"}, id : Keys, body : SaleUpdates]
    \cup [op : {"get_sale"}, id : Keys]

\* sales of one product to a customer or to nobody, then refunded, cancelled
\* or given another item list
RefundUpdates ==
    {[status |-> st] : st \in {"refunded", "partial_refund", "cancelled"}}
    \cup {[items |-> l] : l \in SingleItems}
    \cup {[status |-> "refunded", items |-> l] : l \in SingleItems}

RefundRequests ==
    [op : {"create_product"}, body : [sku : {"A1"}, stock : {MaxStock}]]
    \cup [op : {"create_customer"}, body : CustomerCreates]
    \cup [op : {"create_sale"},
          body : [customer_id : Opt(Keys), items : SingleItems, total : {MaxTotal},
                  paid_amount : {Some(MaxTotal)}, remaining_amount : {None},
                  status : {"completed"}, timestamp : {None}]]
    \cup [op : {"update_sale"}, id : Keys, body : RefundUpdates]

\* SaleCreate bodies that ask for a status only an update should give
StatusSales ==
    [customer_id : {None}, items : SingleItems, total : {MaxTotal},
     paid_amount : Opt((MaxTotal - 1)..MaxTotal), remaining_amount : {None},
     status : {"refunded", "partial_refund", "cancelled"}, timestamp : {None}]

StatusRequests ==
    [op : {"create_product"}, body : [sku : {"A1"}, stock : {MaxStock}]]
    \cup [op : {"create_sale"}, body : StatusSales]

\* sales that refer to a product and maybe a customer, which are then deleted
ReferenceRequests ==
    [op : {"create_product"}, body : [sku : {"A1", "100"}, stock : {MaxStock}]]
    \cup [op : {"create_customer"}, body : CustomerCreates]
    \cup [op : {"create_sale"},
          body : [customer_id : Opt(Keys), items : SingleItems, total : {MaxTotal},
                  paid_amount : {Some(MaxTotal)}, remaining_amount : {None},
                  status : {"completed"}, timestamp : {None}]]
    \cup [op : {"delete_product", "delete_customer", "get_sale"}, id : Keys]
    \cup [op : {"get_sales"}]

\* SaleCreate bodies with a timestamp text or none, paid in full
DatedSales ==
    [customer_id : {None}, items : SingleItems, total : {MaxTotal},
     paid_amount : {Some(MaxTotal)}, remaining_amount : {None},
     status : {"completed"}, timestamp : Opt(Timestamps)]

AnalyticsRequests ==
    [op : {"create_product"}, body : {[sku |-> "A1", stock |-> MaxStock]}]
    \cup [op : {"create_sale"}, body : DatedSales]
    \cup [op : {"get_sales_analytics"}, days : 1..MaxDay]

\* rows of a sales.csv the analytics are asked of
MaxSales == 2

\* item lists of stored sales: three products, one of them sold at a higher price
ReportItems ==
    {<<[product_id |-> 1, quantity |-> 1, price |-> 2]>>,
     <<[product_id |-> 2, quantity |-> 1, price |-> 1],
       [product_id |-> 3, quantity |-> 1, price |-> 1]>>,
     <<[product_id |-> 3, quantity |-> 2, price |-> 1],
       [product_id |-> 1, quantity |-> 1, price |-> 1]>>}

\* sale rows as create_sale stores them when the sale is paid in full
ReportRows ==
    {[customer_id |-> None, items |-> JsonDumps(l), total |-> t,
      status |-> "completed", paid_amount |-> Some(t), remaining_amount |-> Some(0),
      timestamp |-> Some(ts), payment_method |-> m] :
        l \in ReportItems, t \in Totals, ts \in Timestamps, m \in {"cash", "card"}}

ReportRequests == [op : {"get_sales_analytics"}, days : 1..MaxDay]

\* rows of customers.csv as far as the listing reads them; an absent email or
\* phone is an empty cell
ContactRows ==
    [first_name : {"Ann", "Bob"}, email : {"", "ann@x.com"}, phone : {"", "100", "+1"}]

SearchRequests ==
    [op : {"get_customers"}, skip : 0..1, limit : 1..MaxRows, search : Opt({"an", "1"})]

\* query strings of the product listing
ListRequests ==
    [op : {"create_product"}, body : [sku : Skus, stock : {0}]]
    \cup [op : {"delete_product"}, id : Keys]
    \cup [op : {"get_products"}, skip : 0..MaxUuid, limit : 1..MaxUuid,
          search : Opt({"a", "0"})]

\* requests that draw a key
Creating(r) ==
    r.op \in {"create_product", "create_customer", "create_sale", "store_create",
              "products_create", "file_create"}

\* a request arrives; the run ends when uuid4 has handed out MaxUuid keys
Receive(requests) ==
    /\ pending = None
    /\ \E r \in requests :
           /\ Creating(r) => uuids < MaxUuid
           /\ pending' = Some(r)
    /\ last' = [op |-> "none"]
    /\ UNCHANGED <<tables, workers, users, present>>

(* ------------------------------ user accounts -------------------------- *)

\* keys uuid4 hands out in a run of the account endpoints
MaxUsers == 7

\* email and role of the accounts create_default_users writes
DefaultUsers ==
    <<[email |-> "owner@boutique.com", role |-> "owner"],
      [email |-> "manager@boutique.com", role |-> "manager"],
      [email |-> "cashier@boutique.com", role |-> "cashier"]>>

\* read_all of users.csv: the email column is inferred like any free text
ReadUsers(file) ==
    [i \in 1..Len(file) |-> [file[i] EXCEPT !.email = InferCell(file, "email", i)]]

\* save_dataframe of the users DataFrame
SaveUsers(df) ==
    [i \in 1..Len(df) |-> [df[i] EXCEPT !.email = df[i].email.text]]

\* UserCSVHandler.create with a key drawn by uuid4
UsersCreate(file, key, data) ==
    SaveUsers(Append(ReadUsers(file),
                     [id |-> key, email |-> StrCell(data.email), role |-> data.role]))

\* UserCSVHandler.find_by_email
FindByEmail(file, email) ==
    LET df == ReadUsers(file)
        S == {i \in 1..Len(df) : df[i].email = StrCell(email)}
    IN  IF S = {} THEN None ELSE Some(df[First(S)])

\* the three creates of create_default_users
CreateDefaults(file, key) ==
    UsersCreate(UsersCreate(UsersCreate(file, key + 1, DefaultUsers[1]),
                            key + 2, DefaultUsers[2]),
                key + 3, DefaultUsers[3])

\* the startup routine without its test of the table
CreateDefaultUsersUngated ==
    /\ pending = None
    /\ uuids + 3 <= MaxUsers
    /\ users' = CreateDefaults(users, uuids)
    /\ uuids' = uuids + 3
    /\ last' = [op |-> "startup"]
    /\ UNCHANGED <<products, customers, sales, pending, workers, present>>

\* the startup event of the application: create_default_users
CreateDefaultUsers ==
    /\ pending = None
    /\ IF ReadUsers(users) = <<>>
       THEN /\ uuids + 3 <= MaxUsers
            /\ users' = CreateDefaults(users, uuids)
            /\ uuids' = uuids + 3
       ELSE UNCHANGED <<users, uuids>>
    /\ last' = [op |-> "startup"]
    /\ UNCHANGED <<products, customers, sales, pending, workers, present>>

\* POST /api/auth/register
RegisterUser ==
    /\ Serving("register_user")
    /\ pending' = None
    /\ IF FindByEmail(users, req.body.email) # None
       THEN /\ last' = [op |-> "register_user", result |-> "conflict"]
            /\ UNCHANGED <<users, uuids>>
       ELSE /\ users' = UsersCreate(users, Uuid4, req.body)
            /\ uuids' = Uuid4
            /\ last' = [op |-> "register_user", result |-> "ok", id |-> Uuid4]
    /\ UNCHANGED <<products, customers, sales, workers, present>>

\* registrations: a default email, a new one, a numeric-looking one
UserRequests ==
    [op : {"register_user"},
     body : [email : {"owner@boutique.com", "a@x.com", "100"},
             role : {"owner", "manager", "cashier"}]]

\* a registration arrives; requests are served once the startup event has run
ReceiveUser ==
    /\ pending = None
    /\ users # <<>>
    /\ uuids < MaxUsers
    /\ \E r \in UserRequests : pending' = Some(r)
    /\ last' = [op |-> "none"]
    /\ UNCHANGED <<tables, workers, users, present>>

(* ------------------------- structured sub-fields ------------------------ *)

\* longest variant list of a product
MaxVariants == 2

\* ProductVariant.dict(), cut down to a text and a number
Variants == {[size |-> "S", stock |-> 0], [size |-> "M", stock |-> 1]}

VariantLists == UNION {[1..n -> Variants] : n \in 0..MaxVariants}

\* a Python list, and a Python int given by its decimal text
PyList(l) == [list |-> l]
PyInt(t) == [int |-> t]

\* decimal text of a small number, and the number of a decimal text
Digits == <<"0", "1", "2", "3">>
NumText(n) == Digits[n + 1]
IsNum(t) == \E n \in 1..Len(Digits) : Digits[n] = t
NumOf(t) == (CHOOSE n \in 1..Len(Digits) : Digits[n] = t) - 1

\* JSON text is modelled as its sequence of tokens
Punctuation == {"[", "]", "{", "}", ","}
IsStr(t) == t \notin Punctuation /\ ~IsNum(t) /\ t \notin IntTexts

\* json.dumps of one variant dict
DumpVariant(v) == <<"{", "size", v.size, "stock", NumText(v.stock), "}">>

RECURSIVE DumpItems(_)
DumpItems(l) ==
    IF l = <<>> THEN <<>>
    ELSE IF Len(l) = 1 THEN DumpVariant(l[1])
    ELSE DumpVariant(l[1]) \o <<",">> \o DumpItems(Tail(l))

\* json.dumps of a variant list written without the separators between items
VariantsDumpsRunOn(l) ==
    <<"[">> \o (IF l = <<>> THEN <<>>
                ELSE DumpVariant(l[1]) \o DumpItems(Tail(l))) \o <<"]">>

\* json.dumps of a variant list
VariantsDumps(l) == <<"[">> \o DumpItems(l) \o <<"]">>

\* JSONDecodeError
Raise == [ok |-> FALSE]
Parsed(v) == [ok |-> TRUE, value |-> v]

\* the JSON object that starts at token k of t, or None
ParseVariant(t, k) ==
    IF /\ k + 5 <= Len(t)
       /\ t[k] = "{" /\ t[k + 1] = "size" /\ IsStr(t[k + 2])
       /\ t[k + 3] = "stock" /\ IsNum(t[k + 4]) /\ t[k + 5] = "}"
    THEN Some([size |-> t[k + 2], stock |-> NumOf(t[k + 4])])
    ELSE None

\* the items of a JSON array from token k on, after the items in acc
RECURSIVE ParseItems(_, _, _)
ParseItems(t, k, acc) ==
    LET v == ParseVariant(t, k)
    IN  IF v = None THEN Raise
        ELSE IF k + 6 = Len(t) /\ t[k + 6] = "]" THEN Parsed(Append(acc, v[1]))
        ELSE IF k + 6 < Len(t) /\ t[k + 6] = "," THEN ParseItems(t, k + 7, Append(acc, v[1]))
        ELSE Raise

\* json.loads of a cell text
JsonLoads(t) ==
    IF t = <<"[", "]">> THEN Parsed(<<>>)
    ELSE IF Len(t) > 2 /\ t[1] = "[" THEN ParseItems(t, 2, <<>>)
    ELSE Raise

\* read_csv on a column of serialized text: int64 when every cell looks like
\* an integer, the texts as they are otherwise
LooksInt(text) == Len(text) = 1 /\ text[1] \in IntTexts

InferJson(file, col, i) ==
    IF \A j \in 1..Len(file) : LooksInt(file[j][col])
    THEN [kind |-> "int", text |-> <<CanonInt(file[i][col][1])>>]
    ELSE StrCell(file[i][col])

\* read_all of products.csv with its variants column
ReadProducts(file) ==
    LET df == ReadAll(file)
    IN  [i \in 1..Len(df) |-> [df[i] EXCEPT !.variants = InferJson(file, "variants", i)]]

\* save_dataframe of the products DataFrame
SaveProducts(df) ==
    LET file == SaveDataframe(df)
    IN  [i \in 1..Len(df) |-> [file[i] EXCEPT !.variants = df[i].variants.text]]

\* ProductCSVHandler._process_product_record: the variants of a record read
ProcessProductRecord(record) ==
    [record EXCEPT !.variants =
        IF record.variants.kind = "str"
        THEN (IF JsonLoads(record.variants.text).ok
              THEN PyList(JsonLoads(record.variants.text).value)
              ELSE PyList(<<>>))
        ELSE PyInt(record.variants.text[1])]

\* ProductCSVHandler.create of a product with a variant list
ProductsCreate(file, data) ==
    SaveProducts(Append(ReadProducts(file),
                        [AsRow(data) EXCEPT !.variants = StrCell(VariantsDumps(data.variants))]))

\* ProductCSVHandler.update of the variant list: [found, file]
ProductsUpdate(file, record_id, data) ==
    LET df == ReadProducts(file)
    IN  IF df = <<>> \/ Matching(df, record_id) = {}
        THEN [found |-> FALSE, file |-> file]
        ELSE [found |-> TRUE,
              file |-> SaveProducts(
                  [i \in 1..Len(df) |->
                      IF i \in Matching(df, record_id)
                      THEN [df[i] EXCEPT !.variants = StrCell(VariantsDumps(data.variants))]
                      ELSE df[i]])]

\* ProductCSVHandler.find_by_id
ProductsFindById(file, record_id) ==
    LET df == ReadProducts(file)
    IN  IF Matching(df, record_id) = {} THEN None
        ELSE Some(ProcessProductRecord(df[First(Matching(df, record_id))]))

\* ProductCSVHandler.get_all
ProductsGetAll(file) ==
    [i \in 1..Len(file) |-> ProcessProductRecord(ReadProducts(file)[i])]

\* products_db.create(data)
CodecCreate ==
    /\ Serving("products_create")
    /\ Served
    /\ products' = ProductsCreate(products, [id |-> Uuid4] @@ req.body)
    /\ uuids' = Uuid4
    /\ last' = [op |-> "products_create", result |-> "ok", id |-> Uuid4]
    /\ UNCHANGED <<customers, sales>>

\* products_db.update(record_id, data)
CodecUpdate ==
    /\ Serving("products_update")
    /\ Served
    /\ products' = ProductsUpdate(products, req.id, req.body).file
    /\ last' = [op |-> "products_update",
                result |-> IF ProductsUpdate(products, req.id, req.body).found
                           THEN "ok" ELSE "none"]
    /\ UNCHANGED <<customers, sales, uuids>>

\* products_db.find_by_id(record_id)
CodecFindById ==
    /\ Serving("products_find_by_id")
    /\ Served
    /\ last' = IF ProductsFindById(products, req.id) = None
               THEN [op |-> "products_find_by_id", result |-> "none"]
               ELSE [op |-> "products_find_by_id", result |-> "ok",
                     variants |-> ProductsFindById(products, req.id)[1].variants]
    /\ UNCHANGED tables

\* products_db.get_all()
CodecGetAll ==
    /\ Serving("products_get_all")
    /\ Served
    /\ last' = [op |-> "products_get_all", result |-> "ok",
                variants |-> [i \in 1..Len(products) |->
                                 ProductsGetAll(products)[i].variants]]
    /\ UNCHANGED tables

\* calls of the product store with variant lists
CodecRequests ==
    [op : {"products_create"},
     body : [sku : {"A1", "100"}, stock : {0}, variants : VariantLists]]
    \cup [op : {"products_update"}, id : Keys, body : [variants : VariantLists]]
    \cup [op : {"products_find_by_id"}, id : Keys]
    \cup [op : {"products_get_all"}]

(* --------------------------- the backing file --------------------------- *)

\* CSVHandler.__init__ of the product store: ensure_file_exists writes a file
\* of headers when there is none
Construct ==
    /\ pending = None
    /\ IF "products" \in present
       THEN UNCHANGED <<products, present>>
       ELSE products' = <<>> /\ present' = present \cup {"products"}
    /\ last' = [op |-> "construct"]
    /\ UNCHANGED <<customers, sales, uuids, pending, workers, users>>

\* products.csv is removed from the data directory while the store is in use
RemoveFile ==
    /\ pending = None
    /\ "products" \in present
    /\ present' = present \ {"products"}
    /\ products' = <<>>
    /\ last' = [op |-> "remove"]
    /\ UNCHANGED <<customers, sales, uuids, pending, workers, users>>

\* read_all catches EmptyDataError only: read_csv on a path that is not there
\* raises FileNotFoundError to the caller
ReadRaises(name) == name \notin present

\* products_db.find_by_id(record_id)
FileFindById ==
    /\ Serving("file_find_by_id")
    /\ Served
    /\ last' = IF ReadRaises("products")
               THEN [op |-> "file_find_by_id", result |-> "raise"]
               ELSE IF FindById(products, req.id) = None
               THEN [op |-> "file_find_by_id", result |-> "none"]
               ELSE [op |-> "file_find_by_id", result |-> "ok", id |-> req.id]
    /\ UNCHANGED tables

\* products_db.get_all()
FileGetAll ==
    /\ Serving("file_get_all")
    /\ Served
    /\ last' = IF ReadRaises("products")
               THEN [op |-> "file_get_all", result |-> "raise"]
               ELSE [op |-> "file_get_all", result |-> "ok",
                     records |-> ReadAll(products)]
    /\ UNCHANGED tables

\* products_db.create(data): the key is drawn, then the table is read
FileCreate ==
    /\ Serving("file_create")
    /\ Served
    /\ uuids' = Uuid4
    /\ IF ReadRaises("products")
       THEN /\ last' = [op |-> "file_create", result |-> "raise"]
            /\ UNCHANGED products
       ELSE /\ products' = Create(products, [id |-> Uuid4] @@ req.body)
            /\ last' = [op |-> "file_create", result |-> "ok", id |-> Uuid4]
    /\ UNCHANGED <<customers, sales>>

\* calls of the product store
FileRequests ==
    [op : {"file_create"}, body : [sku : {"A1", "100"}, stock : {0}]]
    \cup [op : {"file_find_by_id"}, id : Keys]
    \cup [op : {"file_get_all"}]

(* ------------------ requests served by several processes --------------- *)

\* server processes sharing the data directory
Workers == {"w1", "w2"}

\* a process between requests
Idle == [pc |-> "idle"]

\* process w is at step pc of its handler
At(w, pc) == workers[w].pc = pc

\* process w moves on with local variables l; the response is not in `last`
Goto(w, l) ==
    /\ workers' = [workers EXCEPT ![w] = l]
    /\ UNCHANGED <<pending, last, users, present>>

\* the handler of request r returns; the response waits to be sent
Return(r, result) == [pc |-> "return", req |-> r, result |-> result]

\* the first step of each handler
Entry(r) ==
    CASE r.op = "create_sale"    -> [pc |-> "find_product", req |-> r, k |-> 1]
      [] r.op = "create_product" -> [pc |-> "check_sku", req |-> r]
      [] r.op = "update_product" -> [pc |-> "find_for_update", req |-> r]
      [] r.op = "delete_product" -> [pc |-> "find_for_delete", req |-> r]

\* steps before the handler's call of uuid4
BeforeUuid == {"find_product", "update_read", "update_write", "insert_read",
               "check_sku", "create_read"}

\* keys still to be drawn by the requests being served
Reserved ==
    Cardinality({v \in Workers : /\ workers[v].pc \in BeforeUuid
                                 /\ Creating(workers[v].req)})

\* an idle process accepts a request
Accept(w, requests) ==
    /\ At(w, "idle")
    /\ \E r \in requests :
           /\ Creating(r) => uuids + Reserved < MaxUuid
           /\ Goto(w, Entry(r))
    /\ UNCHANGED tables

\* a variant of FindProduct: the stock is not compared with the quantity
FindProductUnchecked(w) ==
    LET l == workers[w]
        item == l.req.body.items[l.k]
        product == FindById(products, item.product_id)
    IN  /\ At(w, "find_product")
        /\ IF product = None
           THEN Goto(w, Return(l.req, "not_found"))
           ELSE Goto(w, [pc |-> "update_read", req |-> l.req, k |-> l.k,
                         current_stock |-> product[1].stock,
                         id |-> item.product_id,
                         data |-> [stock |-> product[1].stock - item.quantity]])
        /\ UNCHANGED tables

\* create_sale, one pass of "for item in sale.items" up to the call of
\* products_db.update: find the product and compare its stock
FindProduct(w) ==
    LET l == workers[w]
        item == l.req.body.items[l.k]
        product == FindById(products, item.product_id)
    IN  /\ At(w, "find_product")
        /\ IF product = None
           THEN Goto(w, Return(l.req, "not_found"))
           ELSE IF product[1].stock < item.quantity
           THEN Goto(w, Return(l.req, "insufficient_stock"))
           ELSE Goto(w, [pc |-> "update_read", req |-> l.req, k |-> l.k,
                         current_stock |-> product[1].stock,
                         id |-> item.product_id,
                         data |-> [stock |-> product[1].stock - item.quantity]])
        /\ UNCHANGED tables

\* where the caller of products_db.update goes on after it returned
AfterUpdate(l) ==
    IF l.req.op = "update_product"
    THEN Return(l.req, "ok")
    ELSE IF l.k < Len(l.req.body.items)
    THEN [pc |-> "find_product", req |-> l.req, k |-> l.k + 1]
    ELSE [pc |-> "insert_read", req |-> l.req, current_stock |-> l.current_stock]

\* CSVHandler.update on products up to the assignment loop: read the file,
\* return None when no row matches; the assignment may raise
UpdateRead(w) ==
    LET l == workers[w]
        df == ReadAll(products)
    IN  /\ At(w, "update_read")
        /\ IF df = <<>> \/ Matching(df, l.id) = {}
           THEN Goto(w, AfterUpdate(l))
           ELSE \/ Goto(w, [l EXCEPT !.pc = "update_write"] @@ [df |-> df])
                \/ /\ Incompatible(df, l.data)
                   /\ Goto(w, Return(l.req, "error"))
        /\ UNCHANGED tables

\* a variant of UpdateWrite: a sale lowers the stock the file holds at the
\* time of the write, not the stock it read before
UpdateWriteFresh(w) ==
    LET l == workers[w]
        df == ReadAll(products)
        row == FindInDf(df, l.id)
        data == IF l.req.op = "create_sale" /\ row # None
                THEN [stock |-> row[1].stock - (l.current_stock - l.data.stock)]
                ELSE l.data
    IN  /\ At(w, "update_write")
        /\ products' = SaveDataframe(AssignMasked(df, l.id, data))
        /\ Goto(w, AfterUpdate(l))
        /\ UNCHANGED <<customers, sales, uuids>>

\* CSVHandler.update on products from the assignment loop on: assign and save
UpdateWrite(w) ==
    LET l == workers[w]
    IN  /\ At(w, "update_write")
        /\ products' = SaveDataframe(AssignMasked(l.df, l.id, l.data))
        /\ Goto(w, AfterUpdate(l))
        /\ UNCHANGED <<customers, sales, uuids>>

\* sales_db.create up to read_all: prepare the dict (float() may raise), draw
\* the key, read the file
SaleInsertRead(w) ==
    LET l == workers[w]
    IN  /\ At(w, "insert_read")
        /\ \E now \in Times :
           LET data == SaleData(l.req.body, now)
           IN  IF data.raised
               THEN /\ Goto(w, Return(l.req, "error"))
                    /\ UNCHANGED uuids
               ELSE /\ uuids' = Uuid4
                    /\ Goto(w, [pc |-> "insert_write", req |-> l.req,
                                current_stock |-> l.current_stock,
                                row |-> [id |-> Uuid4] @@ data.data,
                                df |-> ReadAll(sales)])
        /\ UNCHANGED <<products, customers, sales>>

\* sales_db.create from pd.concat on: append and save
SaleInsertWrite(w) ==
    LET l == workers[w]
    IN  /\ At(w, "insert_write")
        /\ sales' = SaveDataframe(Concat(l.df, l.row))
        /\ Goto(w, Return(l.req, "ok") @@ [current_stock |-> l.current_stock])
        /\ UNCHANGED <<products, customers, uuids>>

\* create_product up to products_db.create: the sku check
CheckSku(w) ==
    LET l == workers[w]
    IN  /\ At(w, "check_sku")
        /\ IF FindBySku(products, l.req.body.sku) # None
           THEN Goto(w, Return(l.req, "conflict"))
           ELSE Goto(w, [pc |-> "create_read", req |-> l.req])
        /\ UNCHANGED tables

\* products_db.create up to read_all: draw the key, read the file
ProductInsertRead(w) ==
    LET l == workers[w]
    IN  /\ At(w, "create_read")
        /\ uuids' = Uuid4
        /\ Goto(w, [pc |-> "create_write", req |-> l.req,
                    row |-> [id |-> Uuid4, sku |-> l.req.body.sku,
                             stock |-> l.req.body.stock],
                    df |-> ReadAll(products)])
        /\ UNCHANGED <<products, customers, sales>>

\* products_db.create from pd.concat on: append and save
ProductInsertWrite(w) ==
    LET l == workers[w]
    IN  /\ At(w, "create_write")
        /\ products' = SaveDataframe(Concat(l.df, l.row))
        /\ Goto(w, Return(l.req, "ok"))
        /\ UNCHANGED <<customers, sales, uuids>>

\* update_product: "Check if product exists"
FindForUpdate(w) ==
    LET l == workers[w]
    IN  /\ At(w, "find_for_update")
        /\ IF FindById(products, l.req.id) = None
           THEN Goto(w, Return(l.req, "not_found"))
           ELSE IF "sku" \in DOMAIN l.req.body
           THEN Goto(w, [pc |-> "check_sku_for_update", req |-> l.req])
           ELSE Goto(w, [pc |-> "update_read", req |-> l.req,
                         id |-> l.req.id, data |-> l.req.body])
        /\ UNCHANGED tables

\* update_product: "Check if SKU is being updated and if it conflicts"
CheckSkuForUpdate(w) ==
    LET l == workers[w]
        existing == FindBySku(products, l.req.body.sku)
    IN  /\ At(w, "check_sku_for_update")
        /\ IF existing # None /\ existing[1].id # l.req.id
           THEN Goto(w, Return(l.req, "conflict"))
           ELSE Goto(w, [pc |-> "update_read", req |-> l.req,
                         id |-> l.req.id, data |-> l.req.body])
        /\ UNCHANGED tables

\* delete_product: "Check if product exists"
FindForDelete(w) ==
    LET l == workers[w]
    IN  /\ At(w, "find_for_delete")
        /\ IF FindById(products, l.req.id) = None
           THEN Goto(w, Return(l.req, "not_found"))
           ELSE Goto(w, [pc |-> "delete_read", req |-> l.req])
        /\ UNCHANGED tables

\* products_db.delete up to the save: read the file and drop the row
DeleteRead(w) ==
    LET l == workers[w]
        df == ReadAll(products)
    IN  /\ At(w, "delete_read")
        /\ IF df = <<>> \/ Len(Unmatched(df, l.req.id)) = Len(df)
           THEN Goto(w, Return(l.req, "error"))
           ELSE Goto(w, [pc |-> "delete_write", req |-> l.req,
                         df |-> Unmatched(df, l.req.id)])
        /\ UNCHANGED tables

\* products_db.delete: save_dataframe
DeleteWrite(w) ==
    LET l == workers[w]
    IN  /\ At(w, "delete_write")
        /\ products' = SaveDataframe(l.df)
        /\ Goto(w, Return(l.req, "ok"))
        /\ UNCHANGED <<customers, sales, uuids>>

\* the response is sent; the process is idle again
Respond(w) ==
    /\ At(w, "return")
    /\ Goto(w, Idle)
    /\ UNCHANGED tables

\* SaleCreate bodies served by several processes: one line item of the first
\* product, no customer (create_sale skips the customer update when
\* customer_id is None), paid in full
ConcSales ==
    [customer_id : {None},
     items : {<<i>> : i \in {j \in SaleItems : j.product_id = 1}},
     total : {MaxTotal}, paid_amount : {Some(MaxTotal)}, remaining_amount : {None},
     status : {"completed"}, timestamp : {None}]

\* ProductUpdate bodies served by several processes: one field
ConcUpdates == {[stock |-> n] : n \in 0..MaxStock} \cup {[sku |-> "A1"]}

\* ProductCreate bodies served by several processes: one sku
ConcCreates == {c \in ProductCreates : c.sku = "A1"}

ConcRequests ==
    [op : {"create_product"}, body : ConcCreates]
    \cup [op : {"update_product"}, id : {1}, body : ConcUpdates]
    \cup [op : {"delete_product"}, id : {1}]
    \cup [op : {"create_sale"}, body : ConcSales]

(* ---------------------------- specifications --------------------------- *)

Init ==
    /\ products = <<>>
    /\ customers = <<>>
    /\ sales = <<>>
    /\ uuids = 0
    /\ pending = None
    /\ last = [op |-> "none"]
    /\ workers = [w \in Workers |-> Idle]
    /\ users = <<>>
    /\ present = Files

\* the product endpoints, requests served one at a time
ReceiveProduct == Receive(ProductRequests)

Next ==
    \/ ReceiveProduct
    \/ CreateProduct
    \/ UpdateProduct
    \/ DeleteProduct

Spec == Init /\ [][Next]_vars

\* the sale endpoint with the product and customer creation it needs,
\* requests served one at a time
ReceiveSale == Receive(SaleRequests)

SaleNext ==
    \/ ReceiveSale
    \/ CreateProduct
    \/ CreateCustomer
    \/ CreateSale

SaleSpec == Init /\ [][SaleNext]_vars

\* the products store called directly, one call at a time
ReceiveStore == Receive(StoreRequests)

StoreNext ==
    \/ ReceiveStore
    \/ StoreCreate
    \/ StoreUpdate
    \/ StoreDelete

StoreSpec == Init /\ [][StoreNext]_vars

\* the product, customer and sale endpoints, requests served one at a time
ReceiveCrud == Receive(CrudRequests)

CrudNext ==
    \/ ReceiveCrud
    \/ CreateProduct
    \/ UpdateProduct
    \/ DeleteProduct
    \/ GetProduct
    \/ CreateCustomer
    \/ UpdateCustomer
    \/ DeleteCustomer
    \/ GetCustomer
    \/ CreateSale
    \/ UpdateSale
    \/ GetSale

CrudSpec == Init /\ [][CrudNext]_vars

\* the analytics endpoint with the sales it reports on
ReceiveAnalytics == Receive(AnalyticsRequests)

AnalyticsNext ==
    \/ ReceiveAnalytics
    \/ CreateProduct
    \/ CreateSale
    \/ GetSalesAnalytics

AnalyticsSpec == Init /\ [][AnalyticsNext]_vars

\* the product listing with the creates and deletes that fill the table
ReceiveList == Receive(ListRequests)

ListNext ==
    \/ ReceiveList
    \/ CreateProduct
    \/ DeleteProduct
    \/ GetProducts

ListSpec == Init /\ [][ListNext]_vars

\* the account endpoints, with the application restarted at any time
UserNext ==
    \/ CreateDefaultUsers
    \/ ReceiveUser
    \/ RegisterUser

UserSpec == Init /\ [][UserNext]_vars

\* the product store called with variant lists
ReceiveCodec == Receive(CodecRequests)

CodecNext ==
    \/ ReceiveCodec
    \/ CodecCreate
    \/ CodecUpdate
    \/ CodecFindById
    \/ CodecGetAll

CodecSpec == Init /\ [][CodecNext]_vars

\* texts of a variants cell in a products.csv the store is started on: two
\* serialized lists, an empty cell, a truncated list, a word, a number
\* written with leading zeros
CellTexts ==
    {VariantsDumps(<<>>), VariantsDumps(<<[size |-> "S", stock |-> 0]>>),
     <<>>, <<"[", "{">>, <<"oops">>, <<"007">>}

\* reads of the product store
ParseRequests ==
    [op : {"products_find_by_id"}, id : Keys] \cup [op : {"products_get_all"}]

\* the store opened on a products.csv written outside the program
ParseInit ==
    /\ \E n \in 1..MaxRows :
           /\ products \in [1..n -> [id : Keys, sku : {"A1"}, stock : {0}, variants : CellTexts]]
           /\ \A i \in 1..n : products[i].id = i
           /\ uuids = n
    /\ customers = <<>>
    /\ sales = <<>>
    /\ pending = None
    /\ last = [op |-> "none"]
    /\ workers = [w \in Workers |-> Idle]
    /\ users = <<>>
    /\ present = Files

ReceiveParse == Receive(ParseRequests)

ParseNext ==
    \/ ReceiveParse
    \/ CodecFindById
    \/ CodecGetAll

ParseSpec == ParseInit /\ [][ParseNext]_vars

\* the product store with its file removed and the store constructed again
ReceiveFile == Receive(FileRequests)

FileNext ==
    \/ ReceiveFile
    \/ Construct
    \/ RemoveFile
    \/ FileFindById
    \/ FileGetAll
    \/ FileCreate

FileSpec == Init /\ [][FileNext]_vars

\* sales made and then updated
ReceiveRefund == Receive(RefundRequests)

RefundNext ==
    \/ ReceiveRefund
    \/ CreateProduct
    \/ CreateCustomer
    \/ CreateSale
    \/ UpdateSale

RefundSpec == Init /\ [][RefundNext]_vars

\* sales created with a status of their own
ReceiveStatus == Receive(StatusRequests)

StatusNext ==
    \/ ReceiveStatus
    \/ CreateProduct
    \/ CreateSale

StatusSpec == Init /\ [][StatusNext]_vars

\* the analytics asked of a sales table of up to MaxSales stored sales
ReportInit ==
    /\ \E n \in 0..MaxSales :
           sales \in {[i \in 1..n |-> [id |-> i] @@ f[i]] : f \in [1..n -> ReportRows]}
    /\ uuids = Len(sales)
    /\ products = <<>>
    /\ customers = <<>>
    /\ pending = None
    /\ last = [op |-> "none"]
    /\ workers = [w \in Workers |-> Idle]
    /\ users = <<>>
    /\ present = Files

ReceiveReport == Receive(ReportRequests)

ReportNext ==
    \/ ReceiveReport
    \/ GetSalesAnalytics

ReportSpec == ReportInit /\ [][ReportNext]_vars

\* products and customers deleted under the sales that refer to them
ReceiveReference == Receive(ReferenceRequests)

ReferenceNext ==
    \/ ReceiveReference
    \/ CreateProduct
    \/ CreateCustomer
    \/ CreateSale
    \/ DeleteProduct
    \/ DeleteCustomer
    \/ GetSale
    \/ GetSales

ReferenceSpec == Init /\ [][ReferenceNext]_vars

\* the customer listing asked of a customers table of up to MaxRows customers
SearchInit ==
    /\ \E n \in 1..MaxRows :
           customers \in {[i \in 1..n |-> [id |-> i] @@ f[i]] : f \in [1..n -> ContactRows]}
    /\ uuids = Len(customers)
    /\ products = <<>>
    /\ sales = <<>>
    /\ pending = None
    /\ last = [op |-> "none"]
    /\ workers = [w \in Workers |-> Idle]
    /\ users = <<>>
    /\ present = Files

ReceiveSearch == Receive(SearchRequests)

SearchNext ==
    \/ ReceiveSearch
    \/ GetCustomers

SearchSpec == SearchInit /\ [][SearchNext]_vars

\* the product and sale endpoints served by several processes on the same
\* files, their file reads and writes interleaved
AcceptAny(w) == Accept(w, ConcRequests)

ConcNext ==
    \E w \in Workers :
        \/ AcceptAny(w)
        \/ FindProduct(w)
        \/ UpdateRead(w)
        \/ UpdateWrite(w)
        \/ SaleInsertRead(w)
        \/ SaleInsertWrite(w)
        \/ CheckSku(w)
        \/ ProductInsertRead(w)
        \/ ProductInsertWrite(w)
        \/ FindForUpdate(w)
        \/ CheckSkuForUpdate(w)
        \/ FindForDelete(w)
        \/ DeleteRead(w)
        \/ DeleteWrite(w)
        \/ Respond(w)

ConcSpec == Init /\ [][ConcNext]_vars

(* ============================ properties ============================== *)

\* a step in which the sale endpoint serves the pending request
SaleStep == Serving("create_sale") /\ pending' = None

\* the quantity the line items before item k ask of product pid
RECURSIVE Demand(_, _, _)
Demand(items, k, pid) ==
    IF k <= 1
    THEN 0
    ELSE Demand(items, k - 1, pid)
         + (IF items[k - 1].product_id = pid THEN items[k - 1].quantity ELSE 0)

HasRow(file, id) == \E i \in 1..Len(file) : file[i].id = id

RowOf(file, id) == file[CHOOSE i \in 1..Len(file) : file[i].id = id]

\* line item k cannot be sold from the products file as the items before it left it
ItemFails(file, items, k) ==
    \/ ~HasRow(file, items[k].product_id)
    \/ RowOf(file, items[k].product_id).stock - Demand(items, k, items[k].product_id)
           < items[k].quantity

\* the first line item that cannot be sold, or Len(items) + 1
FirstFail(file, items) ==
    IF \E k \in 1..Len(items) : ItemFails(file, items, k)
    THEN CHOOSE k \in 1..Len(items) :
             /\ ItemFails(file, items, k)
             /\ \A j \in 1..(k - 1) : ~ItemFails(file, items, j)
    ELSE Len(items) + 1

\* every product keeps its place and key, and its stock is lowered by what
\* the line items before item k ask of it
StockLoweredBefore(items, k) ==
    /\ Len(products') = Len(products)
    /\ \A i \in 1..Len(products) :
           /\ products'[i].id = products[i].id
           /\ products'[i].stock = products[i].stock - Demand(items, k, products[i].id)

\* C1: createSale takes its line items in order; it fails with InsufficientStock
\* exactly when the first item that cannot be sold names an existing product
\* whose current stock is below the quantity, and every item before that one
\* lowers its product's stock by its quantity.  When no item fails the request
\* passes the stock check (stock 2, quantity 2 leaves stock 0) and, with a
\* payment given, the sale is created.
C1_StockCheck ==
    [][SaleStep =>
        LET items == req.body.items
            f == FirstFail(products, items)
        IN  /\ (last'.result = "insufficient_stock") <=>
                   (f <= Len(items) /\ HasRow(products, items[f].product_id))
            /\ (last'.result = "not_found") <=>
                   (f <= Len(items) /\ ~HasRow(products, items[f].product_id))
            /\ StockLoweredBefore(items, f)
            /\ (f > Len(items) /\ req.body.paid_amount # None) =>
                   (last'.result = "ok" /\ Len(sales') = Len(sales) + 1)]_vars

\* a sale took the whole stock of a product, and the sale after it failed with
\* InsufficientStock
C1_Witness ==
    /\ last.op = "create_sale"
    /\ last.result = "insufficient_stock"
    /\ \E i \in 1..Len(products), j \in 1..Len(sales) :
           /\ products[i].stock = 0
           /\ sales[j].items.json = <<[product_id |-> products[i].id, quantity |-> MaxStock]>>

\* C2: a sale created from a request that carries paid_amount (total is
\* always there) has status completed, remaining_amount 0 and paid_amount =
\* total when paid_amount >= total, and status partial_payment and
\* remaining_amount = total - paid_amount when paid_amount < total, whatever
\* status the request carried.
C2_PaymentStatus ==
    [][(SaleStep /\ req.body.paid_amount # None /\ last'.result = "ok") =>
        LET paid == req.body.paid_amount[1]
            total == req.body.total
            sale == sales'[Len(sales')]
        IN  /\ Len(sales') = Len(sales) + 1
            /\ sale.total = total
            /\ paid >= total =>
                   /\ sale.status = "completed"
                   /\ sale.remaining_amount = Some(0)
                   /\ sale.paid_amount = Some(total)
            /\ paid < total =>
                   /\ sale.status = "partial_payment"
                   /\ sale.remaining_amount = Some(total - paid)
                   /\ sale.paid_amount = Some(paid)]_vars

\* the last request created a partly paid sale
C2_Witness ==
    /\ last.op = "create_sale"
    /\ last.result = "ok"
    /\ \E j \in 1..Len(sales) :
           /\ sales[j].id = last.id
           /\ sales[j].status = "partial_payment"
           /\ sales[j].paid_amount = Some(MaxTotal - 1)
           /\ sales[j].remaining_amount = Some(1)
           /\ sales[j].total = MaxTotal

\* C3: when the sale names an existing customer and every line item passes the
\* stock check, that customer's total_spent grows by the total, visits by 1,
\* loyalty_points by the total truncated to whole currency units, and
\* last_visit becomes the current time; the other customers stay as they were.
C3_CustomerCredit ==
    [][(/\ SaleStep
        /\ req.body.customer_id # None
        /\ HasRow(customers, req.body.customer_id[1])
        /\ FirstFail(products, req.body.items) > Len(req.body.items)) =>
        /\ Len(customers') = Len(customers)
        /\ \A i \in 1..Len(customers) :
               IF customers[i].id = req.body.customer_id[1]
               THEN /\ customers'[i].id = customers[i].id
                    /\ customers'[i].total_spent = customers[i].total_spent + req.body.total
                    /\ customers'[i].visits = customers[i].visits + 1
                    /\ LET points == customers'[i].loyalty_points - customers[i].loyalty_points
                       IN  2 * points <= req.body.total /\ req.body.total < 2 * (points + 1)
                    /\ customers'[i].last_visit = Some(last'.now)
               ELSE customers'[i] = customers[i]]_vars

\* a customer with zeroed statistics was credited one sale of 1.5 units
C3_Witness ==
    /\ last.op = "create_sale"
    /\ \E i \in 1..Len(customers) :
           /\ customers[i].total_spent = 3
           /\ customers[i].visits = 1
           /\ customers[i].loyalty_points = 1
           /\ customers[i].last_visit = Some(last.now)

\* C4: when createSale fails at line item k (product absent, or stock below
\* the quantity), the stock decrements of line items 1..k-1 stay in the
\* products table, no sale is inserted and no customer is updated.
C4_NoRollback ==
    [][(SaleStep /\ last'.result \in {"not_found", "insufficient_stock"}) =>
        /\ last'.at \in 1..Len(req.body.items)
        /\ last'.at = FirstFail(products, req.body.items)
        /\ StockLoweredBefore(req.body.items, last'.at)
        /\ sales' = sales
        /\ customers' = customers
        /\ uuids' = uuids]_vars

\* a sale failed at its second line item after the first one's stock was
\* written, and no sale was recorded
C4_Witness ==
    /\ last.op = "create_sale"
    /\ last.result \in {"not_found", "insufficient_stock"}
    /\ last.at = 2
    /\ sales = <<>>
    /\ customers # <<>>

\* a step in which the store serves a direct call
StoreStep(op) == Serving(op) /\ pending' = None

\* C7: no two products of the table share a sku (a create or an update that
\* would give a second product an existing sku is refused with Conflict).
C7_UniqueSku ==
    \A i, j \in 1..Len(products) : i # j => products[i].sku # products[j].sku

\* C8: update(key, partialFields) on an existing key leaves every field of
\* the matching row that is not listed as it was, keeps the row's key even
\* when partialFields lists another 'id', and leaves every other row and the
\* number of rows as they were.
C8_UpdateFrame ==
    [][(StoreStep("store_update") /\ HasRow(products, req.id) /\ ~last'.raised) =>
        /\ last'.found
        /\ Len(products') = Len(products)
        /\ \A i \in 1..Len(products) :
               IF products[i].id = req.id
               THEN /\ products'[i].id = products[i].id
                    /\ \A c \in {"sku", "stock"} \ DOMAIN req.body :
                           products'[i][c] = products[i][c]
               ELSE products'[i] = products[i]]_vars

C10_InsertAppends ==
    [][StoreStep("store_create") =>
        /\ ~HasRow(products, last'.id)
        /\ Len(products') = Len(products) + 1
        /\ SubSeq(products', 1, Len(products)) = products
        /\ products'[Len(products')] = [id |-> last'.id] @@ req.body
        /\ FindById(products', last'.id) = Some(AsRow([id |-> last'.id] @@ req.body))]_vars

\* process w is about to answer a sale as created, and read stock s0 of the
\* product before lowering it
Sold(w, s0) ==
    /\ At(w, "return")
    /\ workers[w].req.op = "create_sale"
    /\ workers[w].result = "ok"
    /\ workers[w].current_stock = s0

\* the quantity process w sells
Quantity(w) == workers[w].req.body.items[1].quantity

\* the product both processes sell
Sought(w) == workers[w].req.body.items[1].product_id

C6_StockNonNegative ==
    \A i \in 1..Len(products) : products[i].stock \in Nat

\* a sale took the whole stock of the product while another process was
\* between its read and its write of the products file
C6_Witness ==
    \E w, v \in Workers :
        /\ \E s0 \in 1..MaxStock : Sold(w, s0) /\ Quantity(w) = s0
        /\ workers[v].pc \in {"update_write", "create_write", "delete_write"}
        /\ HasRow(products, 1)
        /\ RowOf(products, 1).stock = 0

\* C11: every sale the sale endpoint stores has a timestamp, also when the
\* request carried none (createSale assigns one).
C11_TimestampAssigned ==
    \A i \in 1..Len(sales) : sales[i].timestamp # None

\* C12: a createSale request without paid_amount whose line items all pass
\* the stock check succeeds and stores exactly one sale, with the status of
\* the request.
C12_PaidAmountOptional ==
    [][(/\ SaleStep
        /\ req.body.paid_amount = None
        /\ FirstFail(products, req.body.items) > Len(req.body.items)) =>
        /\ last'.result = "ok"
        /\ Len(sales') = Len(sales) + 1
        /\ SubSeq(sales', 1, Len(sales)) = sales
        /\ sales'[Len(sales')].status = req.body.status]_vars

\* C13: when createSale names a customer that is not in the customers table
\* and every line item passes the stock check, the customers table stays as
\* it was, every line item lowers its product's stock, and the sale is
\* stored with the customer_id of the request.
C13_UnknownCustomer ==
    [][(/\ SaleStep
        /\ req.body.customer_id # None
        /\ ~HasRow(customers, req.body.customer_id[1])
        /\ FirstFail(products, req.body.items) > Len(req.body.items)) =>
        /\ customers' = customers
        /\ StockLoweredBefore(req.body.items, Len(req.body.items) + 1)
        /\ Len(sales') = Len(sales) + 1
        /\ sales'[Len(sales')].customer_id = req.body.customer_id]_vars

\* a step in which a request other than createSale is served
OtherStep == pending # None /\ req.op # "create_sale" /\ pending' = None

\* C14: outside createSale, a request answered with NotFound or Conflict (get,
\* update or delete of an unknown product, customer or sale; product create or
\* update with a sku another product has) leaves the products, customers,
\* sales and users tables exactly as they were.
C14_NoPartialEffects ==
    [][(OtherStep /\ last'.result \in {"not_found", "conflict"}) =>
        UNCHANGED <<products, customers, sales, users>>]_vars

\* an update of a product's sku to the sku of another product was refused
C14_Witness ==
    /\ last = [op |-> "update_product", result |-> "conflict"]
    /\ Len(products) = 2
    /\ products[1].sku # products[2].sku

\* C15: updateSale with a status on an existing sale succeeds and leaves the
\* sale with that status, whatever status the sale had (completed included);
\* the number of sales stays as it was.
C15_AnyTransition ==
    [][(/\ pending # None
        /\ req.op = "update_sale"
        /\ pending' = None
        /\ HasRow(sales, req.id)
        /\ "status" \in DOMAIN req.body) =>
        /\ last'.result = "ok"
        /\ Len(sales') = Len(sales)
        /\ \A i \in 1..Len(sales) :
               /\ sales'[i].id = sales[i].id
               /\ sales'[i].status =
                      IF sales[i].id = req.id THEN req.body.status ELSE sales[i].status]_vars

\* a sale that was created completed (paid in full) has been cancelled by the
\* last update
C15_Witness ==
    /\ last.op = "update_sale"
    /\ last.result = "ok"
    /\ HasRow(sales, last.id)
    /\ RowOf(sales, last.id).status = "cancelled"
    /\ RowOf(sales, last.id).paid_amount = Some(MaxTotal)
    /\ RowOf(sales, last.id).remaining_amount = Some(0)

\* the point in time a timestamp text names, in hours
Instant(t) == t.date * (MaxHour + 1) + t.time

\* the sales dated at or after the cutoff of a window of `days` days that
\* ends at hour `hour` of day `today`
InWindow(today, hour, days) ==
    {i \in 1..Len(sales) :
        /\ sales[i].timestamp # None
        /\ Instant(sales[i].timestamp[1]) >= Instant(Isoformat(today - days, hour))}

\* C16: sales analytics over a window of N days counts exactly the sales
\* whose timestamp is at or after now - N days: total_transactions is their
\* number, and sales_by_day and revenue_trend list exactly their days.
C16_AnalyticsWindow ==
    [][(pending # None /\ req.op = "get_sales_analytics" /\ pending' = None) =>
        LET W == InWindow(last'.today, last'.hour, last'.days)
            days == {sales[i].timestamp[1].date : i \in W}
        IN  /\ last'.total_transactions = Cardinality(W)
            /\ last'.total_sales = Cardinality(W) * MaxTotal
            /\ DOMAIN last'.sales_by_day = days
            /\ {last'.revenue_trend[i].date : i \in 1..Len(last'.revenue_trend)} = days]_vars

\* the products of the table that the search text selects, in table order
Filtered(search) ==
    SelectSeq(products,
              LAMBDA r : search = None \/ Contains(Lower(search[1]), Lower(r.sku)))

\* C17: listing with (skip, limit) returns exactly the records at positions
\* skip .. skip+limit-1 of the filtered table in table order, that is
\* min(limit, max(0, n - skip)) records, and reports total = n, the number of
\* records that match the filters.
C17_Pagination ==
    [][(pending # None /\ req.op = "get_products" /\ pending' = None) =>
        LET n == Len(Filtered(req.search))
            rest == IF n > req.skip THEN n - req.skip ELSE 0
        IN  /\ last'.result = "ok"
            /\ last'.total = n
            /\ Len(last'.data) = (IF req.limit < rest THEN req.limit ELSE rest)
            /\ \A i \in 1..Len(last'.data) :
                   /\ last'.data[i].id = Filtered(req.search)[req.skip + i].id
                   /\ last'.data[i].sku.text = Filtered(req.search)[req.skip + i].sku
                   /\ last'.data[i].stock = Filtered(req.search)[req.skip + i].stock]_vars

\* the rows of the users table that hold the email of a default account
Defaults(file, k) == {i \in 1..Len(file) : file[i].email = DefaultUsers[k].email}

\* C18: the default-user bootstrap is gated on an empty user table: run on an
\* empty table it creates exactly the accounts owner, manager and cashier, run
\* on a non-empty table it creates nothing, so after any number of startups
\* the table holds each default account exactly once.
C18_BootstrapIdempotent ==
    [][(pending = None /\ pending' = None) =>
        /\ users = <<>> =>
               /\ Len(users') = 3
               /\ \A k \in 1..3 : Restrict(users'[k], {"email", "role"}) = DefaultUsers[k]
        /\ users # <<>> => users' = users
        /\ \A k \in 1..3 : Cardinality(Defaults(users', k)) = 1]_vars

\* the startup routine has run on a table that held the defaults and a
\* registered account
C18_Witness ==
    /\ last = [op |-> "startup"]
    /\ Len(users) = 4
    /\ \A k \in 1..3 : Cardinality(Defaults(users, k)) = 1

\* the variants find_by_id reads for a key, and those get_all reads, by key
ReadBack(file, record_id) == ProductsFindById(file, record_id)[1].variants

Listed(file, record_id) ==
    ProductsGetAll(file)[First(Matching(file, record_id))].variants

\* C19: a variant list written through the product codec (create or update)
\* is read back structurally equal by find_by_id and by get_all, and writing
\* one product leaves what is read back for every other product as it was.
C19_VariantsRoundTrip ==
    [][(pending # None /\ pending' = None
        /\ req.op \in {"products_create", "products_update"} /\ last'.result = "ok") =>
        LET key == IF req.op = "products_create" THEN last'.id ELSE req.id
        IN  /\ ReadBack(products', key) = PyList(req.body.variants)
            /\ Listed(products', key) = PyList(req.body.variants)
            /\ \A i \in 1..Len(products) :
                   products[i].id # key =>
                       /\ ReadBack(products', products[i].id) = ReadBack(products, products[i].id)
                       /\ Listed(products', products[i].id) = Listed(products, products[i].id)]_vars

\* a list of MaxVariants variants held by the table was read back by find_by_id
C19_Witness ==
    /\ last.op = "products_find_by_id"
    /\ last.result = "ok"
    /\ last.variants \in {PyList(l) : l \in [1..MaxVariants -> Variants]}
    /\ \E i \in 1..Len(products) : products[i].variants = VariantsDumps(last.variants.list)

\* what the lenient parse makes of a cell text: its list, or the empty list
\* when json.loads raises
Lenient(text) ==
    IF JsonLoads(text).ok THEN PyList(JsonLoads(text).value) ELSE PyList(<<>>)

\* C20: reading a row whose structured cell holds malformed serialized text
\* never fails the read; the field decodes to the empty structure and every
\* other row of the table is still returned, with its own list.
C20_LenientParse ==
    [][(pending # None /\ pending' = None) =>
        /\ req.op = "products_get_all" =>
               /\ last'.result = "ok"
               /\ Len(last'.variants) = Len(products)
               /\ \A i \in 1..Len(products) :
                      last'.variants[i] = Lenient(products[i].variants)
        /\ (req.op = "products_find_by_id" /\ Matching(products, req.id) # {}) =>
               /\ last'.result = "ok"
               /\ last'.variants = Lenient(products[First(Matching(products, req.id))].variants)]_vars

\* C21: loading a table whose backing file is missing raises no error and
\* gives zero rows, whether the file went missing before the store was
\* constructed or after: find_by_id returns absent, get_all returns an empty
\* sequence, and a following create makes the table with that one row.
C21_MissingFile ==
    [][(pending # None /\ pending' = None /\ "products" \notin present) =>
        /\ req.op = "file_find_by_id" => last'.result = "none"
        /\ req.op = "file_get_all" => last'.result = "ok" /\ last'.records = <<>>
        /\ req.op = "file_create" =>
               /\ last'.result = "ok"
               /\ "products" \in present'
               /\ Len(products') = 1
               /\ products'[1].id = last'.id]_vars

\* C22: update_sale changes only the sale table: whatever the payload (a
\* status of refunded, partial_refund or cancelled, another item list), the
\* product table and the customer table are the same before and after, so
\* stock is not restored and the customer's aggregates are not reversed.
C22_UpdateSaleFrame ==
    [][(pending # None /\ req.op = "update_sale" /\ pending' = None) =>
        /\ products' = products
        /\ customers' = customers]_vars

\* a sale to a customer has been refunded by the last update: the product is
\* still one short and the customer still has the visit and the spending
C22_Witness ==
    /\ last.op = "update_sale"
    /\ last.result = "ok"
    /\ HasRow(sales, last.id)
    /\ RowOf(sales, last.id).status = "refunded"
    /\ \E i \in 1..Len(products) :
           /\ products[i].id = RowOf(sales, last.id).items.json[1].product_id
           /\ products[i].stock = MaxStock - 1
    /\ \E i \in 1..Len(customers) :
           /\ Some(customers[i].id) = RowOf(sales, last.id).customer_id
           /\ customers[i].visits = 1
           /\ customers[i].total_spent > 0

\* C23: every sale record, at the moment the sale-creation endpoint inserts
\* it, has status completed or partial_payment, whatever status the request
\* supplied; refunded, partial_refund and cancelled come only from an update.
C23_CreatedStatus ==
    [][SaleStep =>
        /\ Len(sales') <= Len(sales) + 1
        /\ SubSeq(sales', 1, Len(sales)) = sales
        /\ \A j \in (Len(sales) + 1)..Len(sales') :
               sales'[j].status \in {"completed", "partial_payment"}]_vars

\* a sale asked for with status refunded, partial_refund or cancelled and
\* paid in part has been stored as partial_payment
C23_Witness ==
    /\ last.op = "create_sale"
    /\ last.result = "ok"
    /\ HasRow(sales, last.id)
    /\ RowOf(sales, last.id).status = "partial_payment"
    /\ RowOf(sales, last.id).paid_amount = Some(MaxTotal - 1)

\* the stored sales dated at or after the cutoff of the window, in table order
WindowRows(today, hour, days) ==
    SelectSeq(sales, LAMBDA r :
        /\ r.timestamp # None
        /\ Instant(r.timestamp[1]) >= Instant(Isoformat(today - days, hour)))

\* the sum of the values of a mapping
RECURSIVE SumValues(_)
SumValues(f) ==
    IF DOMAIN f = {} THEN 0
    ELSE LET k == CHOOSE x \in DOMAIN f : TRUE
         IN  f[k] + SumValues([x \in DOMAIN f \ {k} |-> f[x]])

AnalyticsStep == pending # None /\ req.op = "get_sales_analytics" /\ pending' = None

\* C24: the analytics aggregates are mutually consistent for every sales table
\* and window: total_transactions is the number of in-window sales,
\* total_sales the sum of their totals, average_order_value their quotient
\* and 0 without transactions, the per-payment-method counts sum to
\* total_transactions and the per-day revenues sum to total_sales.
C24_AggregatesConsistent ==
    [][AnalyticsStep =>
        LET rows == WindowRows(last'.today, last'.hour, last'.days)
        IN  /\ last'.result = "ok"
            /\ last'.total_transactions = Len(rows)
            /\ last'.total_sales = SumTotal(rows)
            /\ last'.average_order_value =
                   Ratio(last'.total_sales, last'.total_transactions)
            /\ SumValues(last'.sales_by_payment_method) = last'.total_transactions
            /\ SumValues(last'.sales_by_day) = last'.total_sales]_vars

\* C25: top_products holds at most TopN entries ordered by revenue
\* descending, each with the sums of quantity and of price*quantity over all
\* in-window line items of its product, and no omitted product has a revenue
\* greater than a listed one; revenue_trend holds exactly the (day, revenue)
\* pairs of sales_by_day in ascending day order, one per day.
C25_TopProductsAndTrend ==
    [][AnalyticsStep =>
        LET items == FlatItems(WindowRows(last'.today, last'.hour, last'.days))
            sold == {items[i].product_id : i \in 1..Len(items)}
            top == last'.top_products
            listed == {top[i].product_id : i \in 1..Len(top)}
            trend == last'.revenue_trend
            by_day == last'.sales_by_day
        IN  /\ Len(top) <= TopN
            /\ Cardinality(listed) = Len(top)
            /\ \A i \in 1..Len(top) :
                   /\ top[i].product_id \in sold
                   /\ top[i].quantity_sold = QuantityOf(items, top[i].product_id)
                   /\ top[i].revenue = RevenueOf(items, top[i].product_id)
                   /\ \A j \in (i + 1)..Len(top) : top[i].revenue >= top[j].revenue
                   /\ \A pid \in sold \ listed : RevenueOf(items, pid) <= top[i].revenue
            /\ Len(trend) = Cardinality(DOMAIN by_day)
            /\ \A i \in 1..Len(trend) :
                   /\ trend[i].date \in DOMAIN by_day
                   /\ trend[i].revenue = by_day[trend[i].date]
                   /\ \A j \in (i + 1)..Len(trend) : trend[i].date < trend[j].date]_vars

\* C26: references from sales are weak: deleting a product or a customer
\* succeeds whether or not sales refer to it and leaves the sale table
\* unchanged, and a later read of those sales by key or by listing still
\* returns them without error.
C26_WeakReferences ==
    [][(pending # None /\ pending' = None) =>
        /\ (req.op = "delete_product" /\ HasRow(products, req.id)) =>
               /\ last'.result = "ok"
               /\ ~HasRow(products', req.id)
               /\ sales' = sales
        /\ (req.op = "delete_customer" /\ HasRow(customers, req.id)) =>
               /\ last'.result = "ok"
               /\ ~HasRow(customers', req.id)
               /\ sales' = sales
        /\ (req.op = "get_sale" /\ HasRow(sales, req.id)) => last'.result = "ok"
        /\ req.op = "get_sales" =>
               /\ last'.result = "ok"
               /\ last'.ids = [i \in 1..Len(sales) |-> sales[i].id]]_vars

\* the listing has returned a sale whose product and whose customer have
\* both been deleted
C26_Witness ==
    /\ last.op = "get_sales"
    /\ last.result = "ok"
    /\ \E i \in 1..Len(sales) :
           /\ last.ids[i] = sales[i].id
           /\ sales[i].customer_id # None
           /\ ~HasRow(customers, sales[i].customer_id[1])
           /\ ~HasRow(products, sales[i].items.json[1].product_id)

\* the customers whose name, email or phone contains the search text,
\* case-insensitively, in table order
Found(search) ==
    SelectSeq(customers, LAMBDA r :
        \/ Contains(Lower(search), Lower(r.first_name))
        \/ Contains(Lower(search), Lower(r.email))
        \/ Contains(Lower(search), Lower(r.phone)))

\* C27: listing customers with a non-empty search text returns, without error
\* and for every content of the customer table (customers without email or
\* phone included), exactly the customers whose name, email or phone contains
\* the text case-insensitively, then paginated.
C27_CustomerSearch ==
    [][(pending # None /\ req.op = "get_customers" /\ pending' = None
        /\ req.search # None) =>
        LET found == Slice(Found(req.search[1]), req.skip, req.limit)
        IN  /\ last'.result = "ok"
            /\ last'.total = Len(Found(req.search[1]))
            /\ last'.ids = [i \in 1..Len(found) |-> found[i].id]]_vars

\* the quantity all line items of a request ask of product pid
TotalDemand(items, pid) == Demand(items, Len(items) + 1, pid)

\* C28: when several line items of one createSale name the same product, each
\* stock check sees the stock as the earlier items of the request left it:
\* the sale succeeds only if the sum of those quantities is at most the
\* product's stock, and on success the stock is lowered by that sum.
C28_SameProductItems ==
    [][(SaleStep /\ last'.result = "ok") =>
        /\ Len(products') = Len(products)
        /\ \A i \in 1..Len(products) :
               /\ TotalDemand(req.body.items, products[i].id) <= products[i].stock
               /\ products'[i].id = products[i].id
               /\ products'[i].stock =
                      products[i].stock - TotalDemand(req.body.items, products[i].id)]_vars

\* a sale of two line items of quantity 1 of the same product has taken a
\* stock of 2 down to 0
C28_Witness ==
    /\ last.op = "create_sale"
    /\ last.result = "ok"
    /\ HasRow(sales, last.id)
    /\ Len(RowOf(sales, last.id).items.json) = 2
    /\ RowOf(sales, last.id).items.json[1] = RowOf(sales, last.id).items.json[2]
    /\ RowOf(sales, last.id).items.json[1].quantity = 1
    /\ HasRow(products, RowOf(sales, last.id).items.json[1].product_id)
    /\ RowOf(products, RowOf(sales, last.id).items.json[1].product_id).stock = MaxStock - 2

\* the rows of a table that find_by_id, update and delete select for a key
\* (the id column is read as str, read_all's dtype dict)
RowsOfKey(file, key) == Matching(file, key)

OneRowPerKey(file) == \A key \in Keys : Cardinality(RowsOfKey(file, key)) <= 1

\* C29: after any sequence of create, update, delete and sale-creation
\* requests served one after the other, the product, customer and sale tables
\* hold at most one row per key, so find_by_id, update and delete select at
\* most one row.
C29_OneRowPerKey ==
    /\ OneRowPerKey(products)
    /\ OneRowPerKey(customers)
    /\ OneRowPerKey(sales)

\* two products are on file after an update, and a sale is recorded
C29_Witness ==
    /\ last.op = "update_product"
    /\ last.result = "ok"
    /\ Len(products) = 2
    /\ products[1].id # products[2].id
    /\ Len(sales) = 1

\* the persisted sales that name customer c and were stored after c was
\* created (keys are handed out in order; a sale can name a key before a
\* customer is given it, which no caller of uuid4 can do)
SalesOf(c) ==
    SelectSeq(sales, LAMBDA r : r.customer_id = Some(c.id) /\ r.id > c.id)

\* C30: customers start with zeroed stats and only sale creation changes
\* their visits and total_spent; after every createSale request, successful
\* or failed, each customer's visits is the number of persisted sales that
\* name the customer and total_spent is the sum of those sales' totals.
C30_CustomerAggregates ==
    \A i \in 1..Len(customers) :
        /\ customers[i].visits = Len(SalesOf(customers[i]))
        /\ customers[i].total_spent = SumTotal(SalesOf(customers[i]))

====
